---- MODULE Spec2Model ----
(***************************************************************************)
(* Model of mempool-watch: the per-chain upstream sessions of              *)
(* MempoolWatcher (raw WebSocket variant), the transaction store reached   *)
(* through prisma.transaction.upsert, and the TransactionBroadcaster hub   *)
(* that fans events out to downstream subscribers.                         *)
(*                                                                         *)
(* Node runs every event handler to its first await without interruption,  *)
(* so one action is one handler run from the event that starts it to the   *)
(* await (or return) that ends it.  A handler suspended at an await is an   *)
(* entry of inflight; the completion of the awaited operation is the next  *)
(* action of that handler.                                                 *)
(***************************************************************************)
EXTENDS Integers, Sequences, FiniteSets, TLC

\* ------------------------------------------------------------------ bounds
\* WebSocket objects to the upstreams that exist at the same time.
MaxSockets == 2
\* Message handlers suspended at an await at the same time.
MaxInFlight == 2
\* Transactions in a block returned by eth_getBlockByNumber.
MaxBlockTxs == 2

\* Messages counted in a downstream socket's buffer; above it the count saturates.
MaxBuffered == 2

\* WebSocket objects of the browser client that exist at the same time.
MaxHookSockets == 2
\* maxReconnectAttempts of useWebSocket (10 by default), scaled.
maxReconnectAttempts == 2
\* MAX_LIVE_TRANSACTIONS of useTransactions (100), scaled.
MAX_LIVE_TRANSACTIONS == 3
\* Transactions in the buffer of useTransactions between two flushes.
MaxAdded == 3

\* ---------------------------------------------------------------- constants
Subs == {"A", "B"}
NoSub == "none"
\* Chain ids a subscriber may list in a subscribe message.
FilterIds == {1, 8453}
Hashes == {"h1", "h2"}
NoSocket == 0
\* n: the records the table holds for the hash.
NoRow == [chainId |-> 0, status |-> "absent", n |-> 0]
\* --------------------------------------------------------------- normalizer
\* A JavaScript number that parseInt produced: an integer or NaN.
Num(n) == [int |-> TRUE, n |-> n]

NaN == [int |-> FALSE, n |-> 0]

\* A property of a transaction object: undefined, a string (its characters) or,
\* in a viem transaction, a bigint or number.
Undefined == [def |-> FALSE, s |-> <<>>, n |-> 0]

Str(s) == [def |-> TRUE, s |-> s, n |-> 0]

Big(n) == [def |-> TRUE, s |-> <<>>, n |-> n]

\* tx.f || ...: undefined and the empty string are falsy.
Truthy(v) == v.def /\ v.s # <<>>

HexDigits ==
  <<"0", "1", "2", "3", "4", "5", "6", "7", "8", "9", "a", "b", "c", "d", "e", "f">>

IsHexDigit(ch) == \E i \in DOMAIN HexDigits : HexDigits[i] = ch

HexValue(ch) == (CHOOSE i \in DOMAIN HexDigits : HexDigits[i] = ch) - 1

IsDecDigit(ch) == \E i \in 1..10 : HexDigits[i] = ch

RECURSIVE digitsValue(_, _, _)
digitsValue(s, radix, acc) ==
  IF s = <<>> THEN acc ELSE digitsValue(Tail(s), radix, acc * radix + HexValue(Head(s)))

HasHexPrefix(s) == Len(s) >= 2 /\ s[1] = "0" /\ s[2] \in {"x", "X"}

\* BigInt(string): the empty string is 0n, 0x introduces hex digits, else decimal
\* digits; anything else throws a SyntaxError.
BigIntOf(s) ==
  IF s = <<>> THEN [ok |-> TRUE, n |-> 0]
  ELSE IF HasHexPrefix(s)
  THEN IF Len(s) > 2 /\ \A i \in 3..Len(s) : IsHexDigit(s[i])
       THEN [ok |-> TRUE, n |-> digitsValue(SubSeq(s, 3, Len(s)), 16, 0)]
       ELSE [ok |-> FALSE, n |-> 0]
  ELSE IF \A i \in DOMAIN s : IsDecDigit(s[i])
  THEN [ok |-> TRUE, n |-> digitsValue(s, 10, 0)]
  ELSE [ok |-> FALSE, n |-> 0]

RECURSIVE hexPrefixOf(_)
hexPrefixOf(s) ==
  IF s # <<>> /\ IsHexDigit(Head(s)) THEN <<Head(s)>> \o hexPrefixOf(Tail(s)) ELSE <<>>

\* parseInt(string, 16): an optional 0x, then the longest run of hex digits; NaN
\* when there is none.  It never throws.
parseInt16(s) ==
  LET body == IF HasHexPrefix(s) THEN SubSeq(s, 3, Len(s)) ELSE s
      run == hexPrefixOf(body)
  IN IF run = <<>> THEN NaN ELSE Num(digitsValue(run, 16, 0))

\* bigint.toString(): base 10, no sign, no leading zeros.
RECURSIVE toString(_)
toString(n) ==
  IF n < 10 THEN <<HexDigits[n + 1]>> ELSE toString(n \div 10) \o <<HexDigits[(n % 10) + 1]>>

NoTx ==
  [hash |-> Undefined, from |-> Undefined, value |-> <<>>, gasPrice |-> <<>>,
   gasLimit |-> <<>>, maxFeePerGas |-> Undefined, nonce |-> NaN, type |-> NaN,
   status |-> "none"]

\* Variant: the gas price is taken from gasPrice alone.
rawTxToPendingTransactionOwnPrice(tx) ==
  LET value == BigIntOf(IF Truthy(tx.value) THEN tx.value.s ELSE <<"0", "x", "0">>)
      gasPrice == BigIntOf(IF Truthy(tx.gasPrice) THEN tx.gasPrice.s ELSE <<"0", "x", "0">>)
      gasLimit == BigIntOf(IF Truthy(tx.gas) THEN tx.gas.s ELSE <<"0", "x", "0">>)
      maxFee == IF Truthy(tx.maxFeePerGas) THEN BigIntOf(tx.maxFeePerGas.s)
                ELSE [ok |-> TRUE, n |-> 0]
  IN IF ~(value.ok /\ gasPrice.ok /\ gasLimit.ok /\ maxFee.ok)
     THEN [threw |-> TRUE, tx |-> NoTx]
     ELSE [threw |-> FALSE,
           tx |-> [hash |-> tx.hash, from |-> tx.from,
                   value |-> toString(value.n), gasPrice |-> toString(gasPrice.n),
                   gasLimit |-> toString(gasLimit.n),
                   maxFeePerGas |-> IF Truthy(tx.maxFeePerGas) THEN Str(toString(maxFee.n))
                                    ELSE Undefined,
                   nonce |-> parseInt16(IF Truthy(tx.nonce) THEN tx.nonce.s
                                        ELSE <<"0", "x", "0">>),
                   type |-> IF Truthy(tx.type) THEN parseInt16(tx.type.s) ELSE Num(0),
                   status |-> "pending"]]

\* rawTxToPendingTransaction: the record, or the SyntaxError of a BigInt call.
rawTxToPendingTransaction(tx) ==
  LET value == BigIntOf(IF Truthy(tx.value) THEN tx.value.s ELSE <<"0", "x", "0">>)
      gasPrice == BigIntOf(IF Truthy(tx.gasPrice) THEN tx.gasPrice.s
                           ELSE IF Truthy(tx.maxFeePerGas) THEN tx.maxFeePerGas.s
                           ELSE <<"0", "x", "0">>)
      gasLimit == BigIntOf(IF Truthy(tx.gas) THEN tx.gas.s ELSE <<"0", "x", "0">>)
      maxFee == IF Truthy(tx.maxFeePerGas) THEN BigIntOf(tx.maxFeePerGas.s)
                ELSE [ok |-> TRUE, n |-> 0]
  IN IF ~(value.ok /\ gasPrice.ok /\ gasLimit.ok /\ maxFee.ok)
     THEN [threw |-> TRUE, tx |-> NoTx]
     ELSE [threw |-> FALSE,
           tx |-> [hash |-> tx.hash, from |-> tx.from,
                   value |-> toString(value.n), gasPrice |-> toString(gasPrice.n),
                   gasLimit |-> toString(gasLimit.n),
                   maxFeePerGas |-> IF Truthy(tx.maxFeePerGas) THEN Str(toString(maxFee.n))
                                    ELSE Undefined,
                   nonce |-> parseInt16(IF Truthy(tx.nonce) THEN tx.nonce.s
                                        ELSE <<"0", "x", "0">>),
                   type |-> IF Truthy(tx.type) THEN parseInt16(tx.type.s) ELSE Num(0),
                   status |-> "pending"]]

\* viemTxToPendingTransaction: gasPrice ?? maxFeePerGas ?? 0n tests for undefined,
\* and a type other than 'eip1559' is 0.
viemTxToPendingTransaction(tx) ==
  [threw |-> FALSE,
   tx |-> [hash |-> tx.hash, from |-> tx.from,
           value |-> toString(tx.value.n),
           gasPrice |-> toString(IF tx.gasPrice.def THEN tx.gasPrice.n
                                 ELSE IF tx.maxFeePerGas.def THEN tx.maxFeePerGas.n
                                 ELSE 0),
           gasLimit |-> toString(tx.gas.n),
           maxFeePerGas |-> IF tx.maxFeePerGas.def THEN Str(toString(tx.maxFeePerGas.n))
                            ELSE Undefined,
           nonce |-> Num(tx.nonce.n),
           type |-> IF tx.type = Str(<<"eip1559">>) THEN Num(2)
                    ELSE IF tx.type = Str(<<"legacy">>) THEN Num(0) ELSE Num(0),
           status |-> "pending"]]

Hex(digits) == Str(<<"0", "x">> \o digits)

\* The transaction objects an upstream may send: each property missing, empty,
\* well-formed hex or not hex at all.
RawTxs ==
  [hash : {Undefined, Hex(<<"a">>)},
   from : {Undefined, Hex(<<"b">>)},
   value : {Undefined, Hex(<<"1", "f">>), Hex(<<"z">>)},
   gasPrice : {Undefined, Str(<<>>), Hex(<<"0">>), Hex(<<"1", "f">>)},
   maxFeePerGas : {Undefined, Hex(<<"2">>), Hex(<<"z">>)},
   gas : {Undefined, Hex(<<"1">>)},
   nonce : {Undefined, Hex(<<"5">>), Str(<<"z">>)},
   type : {Undefined, Str(<<>>), Hex(<<"0">>), Hex(<<"1">>), Hex(<<"2">>), Hex(<<"3">>),
           Hex(<<"z">>)}]

\* The transactions viem hands over: typed, with bigint quantities.
ViemTxs ==
  [hash : {Hex(<<"a">>)},
   from : {Hex(<<"b">>)},
   value : {Big(0), Big(31)},
   gasPrice : {Undefined, Big(0), Big(31)},
   maxFeePerGas : {Undefined, Big(2)},
   gas : {Big(21000)},
   nonce : {Big(5)},
   type : {Undefined, Str(<<"legacy">>), Str(<<"eip2930">>), Str(<<"eip1559">>),
           Str(<<"eip4844">>)}]

NoArg ==
  [hash |-> Undefined, from |-> Undefined, value |-> Undefined, gasPrice |-> Undefined,
   maxFeePerGas |-> Undefined, gas |-> Undefined, nonce |-> Undefined, type |-> Undefined]

NoNorm == [fn |-> "none", arg |-> NoArg, res |-> [threw |-> FALSE, tx |-> NoTx]]

\* ------------------------------------------------------------ configuration
INFURA_NETWORKS == {1, 5, 11155111, 10, 420, 137, 80001, 42161, 421613, 43114, 43113}

QUICKNODE_NETWORKS ==
  {1, 5, 11155111, 10, 137, 80001, 42161, 421613, 8453, 84531, 56, 97, 43114, 43113}

\* The providers of the registry whose definitions are at hand.
PROVIDER_REGISTRY == [infura |-> INFURA_NETWORKS, quicknode |-> QUICKNODE_NETWORKS]

getProvider(name) == IF name \in DOMAIN PROVIDER_REGISTRY THEN name ELSE "undefined"

\* provider.supportsChain(chainId): chainId in NETWORKS; NaN is in none.
supportsChain(provider, chainId) == chainId.int /\ chainId.n \in PROVIDER_REGISTRY[provider]

\* A provider configuration: which of apiKey and customUrl it has.
ProviderConfig ==
  [provider : {"infura", "quicknode", "custom"}, apiKey : BOOLEAN, customUrl : BOOLEAN]

\* validateConfigs does not throw.
validateConfigs(configs) ==
  \A i \in DOMAIN configs :
    IF configs[i].provider = "custom" THEN configs[i].customUrl
    ELSE /\ getProvider(configs[i].provider) # "undefined"
         /\ configs[i].apiKey \/ configs[i].customUrl

NoEndpoint == [provider |-> "null", wsUrl |-> <<"null", 0>>]

\* The endpoint a configuration yields for a chain, if any.  A url is named by
\* where it comes from: the custom url, or the provider's url for the chain.
endpointsOf(config, chainId) ==
  IF config.provider = "custom" /\ config.customUrl
  THEN <<[provider |-> "custom", wsUrl |-> <<"custom", 0>>]>>
  ELSE IF getProvider(config.provider) = "undefined" THEN <<>>
  ELSE IF ~supportsChain(config.provider, chainId) THEN <<>>
  ELSE IF config.apiKey
  THEN <<[provider |-> config.provider, wsUrl |-> <<config.provider, chainId.n>>]>>
  ELSE <<>>

RECURSIVE getEndpoints(_, _)
getEndpoints(configs, chainId) ==
  IF configs = <<>> THEN <<>>
  ELSE endpointsOf(Head(configs), chainId) \o getEndpoints(Tail(configs), chainId)

\* endpoints[0] || null
getPrimaryEndpoint(configs, chainId) ==
  LET endpoints == getEndpoints(configs, chainId)
  IN IF endpoints = <<>> THEN NoEndpoint ELSE endpoints[1]

RECURSIVE decPrefixOf(_)
decPrefixOf(s) ==
  IF s # <<>> /\ IsDecDigit(Head(s)) THEN <<Head(s)>> \o decPrefixOf(Tail(s)) ELSE <<>>

\* parseInt(string, 10) of an unsigned string: the longest run of decimal digits.
parseInt10(s) ==
  IF decPrefixOf(s) = <<>> THEN NaN ELSE Num(digitsValue(decPrefixOf(s), 10, 0))

MaxEnv == 3

\* CHAIN_i_NAME where it is set: a name of its own for every index.
EnvNames == <<"c1", "c2", "c3", "c4">>

\* The CHAIN_i_* variables of one index: "" and <<>> stand for an unset variable.
EnvEntries(i) ==
  [name : {"", EnvNames[i]},
   id : {<<>>, <<"1">>, <<"8", "4", "5", "3">>, <<"x">>},
   wsUrl : BOOLEAN]

Envs == {env \in [1..MaxEnv -> UNION {EnvEntries(i) : i \in 1..MaxEnv}] :
           \A i \in 1..MaxEnv : env[i] \in EnvEntries(i)}

\* Variant: an index ends the list only when both its name and its id are unset.
envMissingBoth(e) == e.name = "" /\ e.id = <<>>

\* !name || !id
envMissing(e) == e.name = "" \/ e.id = <<>>

\* The while loop of loadChainsFromEnv from index on.  pm: the provider manager's
\* configurations, or none.
RECURSIVE loadFrom(_, _, _, _)
loadFrom(env, index, pm, acc) ==
  IF index > Len(env) \/ envMissing(env[index]) THEN acc
  ELSE LET chainId == parseInt10(env[index].id)
           endpoint == getPrimaryEndpoint(pm.configs, chainId)
       IN IF env[index].wsUrl
          THEN loadFrom(env, index + 1, pm,
                        Append(acc, [id |-> chainId, name |-> env[index].name,
                                     wsUrl |-> <<"env", index>>]))
          ELSE IF pm.present
          THEN IF endpoint = NoEndpoint THEN loadFrom(env, index + 1, pm, acc)
               ELSE loadFrom(env, index + 1, pm,
                             Append(acc, [id |-> chainId, name |-> env[index].name,
                                          wsUrl |-> endpoint.wsUrl]))
          ELSE acc

loadChainsFromEnv(env, pm) == loadFrom(env, 1, pm, <<>>)

NoBoot ==
  [pc |-> "none", providers |-> <<>>, env |-> <<>>, query |-> Num(0), endpoints |-> <<>>,
   primary |-> NoEndpoint, loaded |-> <<>>]

\* ------------------------------------------------------------------- values
\* The transaction object a handler decoded.  Handlers whose payload is taken to be
\* well-formed carry no object.
NoPayload == [decoded |-> FALSE, raw |-> NoArg]

NoSettle ==
  [chainId |-> 0, hash |-> "", status |-> "", outcome |-> "none", raced |-> FALSE,
   payload |-> NoPayload]
Slots == 1..MaxSockets

\* Chain ids the model configures: one per subscription dialect, and one that
\* SUBSCRIPTION_CONFIG does not list.
AllChains == {1, 8453, 143, 56}
\* The chain lists the watcher is constructed with.
ChainConfigs == {<<1>>, <<8453>>, <<143>>}

SUBSCRIPTION_CONFIG ==
  [c \in {1, 11155111, 137, 8453, 42161, 10, 143} |->
     IF c \in {1, 11155111, 137} THEN "alchemy_pendingTransactions"
     ELSE IF c \in {8453, 42161, 10} THEN "alchemy_minedTransactions"
     ELSE "newHeads"]

SubConfig(chainId) ==
  IF chainId \in DOMAIN SUBSCRIPTION_CONFIG THEN SUBSCRIPTION_CONFIG[chainId]
  ELSE "newHeads"

VARIABLES
  ui,               \* the browser client: the state and refs of its two hooks
  boot,             \* configuration: providers, environment, what was loaded from them
  norm,             \* the last call of a normalizer: its argument and what it returned
  main,             \* main(): its position, the loaded configuration, the exit code
  chains,           \* constructor argument: the configured chain ids, in order
  isRunning,        \* MempoolWatcher.isRunning
  sockets,          \* the WebSocket objects created by watchChainRaw
  clients,          \* MempoolWatcher.clients: chain -> socket
  unwatchFns,       \* MempoolWatcher.unwatchFns: chain -> socket its closure closes
  reconnectTimers,  \* MempoolWatcher.reconnectTimers: chain -> has an entry
  armed,            \* timers armed in the runtime for a chain (setTimeout minus clearTimeout/fired)
  inflight,         \* message handlers suspended at an await, in order of arrival
  store,            \* the transaction table: hash -> row
  out,              \* events the watcher emitted in the last handler run, in order
  settled,          \* the upsert that settled in the last handler run, and how
  lastStatus,       \* history: the last connected/disconnected event emitted per chain
  hubClients,       \* TransactionBroadcaster.clients, in insertion order
  dsState,          \* readyState and pending events of each downstream socket
  reading,          \* whether the subscriber's peer is draining its connection
  buffered,         \* messages written to a downstream socket and not yet drained
  pushed,           \* messages sent to each subscriber in the last handler run
  received,         \* the subscriber message handled in the last handler run
  threw             \* the subscriber whose ws.send threw in the last handler run

wvars == <<ui, boot, norm, main, chains, isRunning, sockets, clients, unwatchFns, reconnectTimers, armed,
           inflight, store, out, settled, lastStatus>>

hvars == <<hubClients, dsState, reading, buffered, pushed, received, threw>>

vars == <<wvars, hvars>>

ChainSet == {chains[i] : i \in DOMAIN chains}

\* ----------------------------------------------------------- browser client
HookSlots == 1..MaxHookSockets

\* captured: reconnectAttempts as the closure of connect that made the socket saw it.
NoHookSocket == [rs |-> "NONE", captured |-> 0]

\* useWebSocket: its state (isConnected, reconnectAttempts), its refs, the WebSocket
\* objects it made and the timers it armed (each by the reconnectAttempts its
\* callback captured); useTransactions: the live list and the buffer, as hashes.
NoUi ==
  [isConnected |-> FALSE, reconnectAttempts |-> 0, wsRef |-> 0,
   reconnectTimeoutRef |-> -1, timers |-> {},
   socks |-> [s \in HookSlots |-> NoHookSocket],
   transactions |-> <<>>, txBuffer |-> <<>>]

autoReconnect == TRUE

FreeHookSlots(u) == {s \in HookSlots : u.socks[s].rs = "NONE" /\ u.wsRef # s}

\* connect() of the render that saw reconnectAttempts = captured.
connect(u, captured) ==
  IF u.wsRef # 0 /\ u.socks[u.wsRef].rs = "OPEN" THEN u
  ELSE LET s == CHOOSE x \in FreeHookSlots(u) : \A y \in FreeHookSlots(u) : x <= y
       IN [u EXCEPT !.socks[s] = [rs |-> "CONNECTING", captured |-> captured],
                    !.wsRef = s]

\* disconnect(): the pending timer is cleared, the current socket is closed.
disconnect(u) ==
  LET u1 == IF u.reconnectTimeoutRef # -1
            THEN [u EXCEPT !.timers = @ \ {u.reconnectTimeoutRef},
                           !.reconnectTimeoutRef = -1]
            ELSE u
      u2 == IF u1.wsRef # 0
            THEN [u1 EXCEPT !.socks[u1.wsRef].rs = "CLOSING", !.wsRef = 0]
            ELSE u1
  IN [u2 EXCEPT !.isConnected = FALSE]

\* ws.onopen.
onopen(u, s) ==
  [u EXCEPT !.socks[s].rs = "OPEN", !.isConnected = TRUE, !.reconnectAttempts = 0]

\* ws.onclose.
onclose(u, s) ==
  LET u1 == [u EXCEPT !.socks[s] = NoHookSocket, !.isConnected = FALSE, !.wsRef = 0]
      attempts == u.socks[s].captured
  IN IF autoReconnect /\ attempts < maxReconnectAttempts
     THEN [u1 EXCEPT !.timers = @ \cup {attempts}, !.reconnectTimeoutRef = attempts]
     ELSE u1

\* The setTimeout callback of onclose: setReconnectAttempts(prev + 1); connect().
reconnectCallback(u, captured) ==
  connect([u EXCEPT !.timers = @ \ {captured}, !.reconnectAttempts = @ + 1], captured)

\* addTransaction(tx).
addTransaction(u, hash) == [u EXCEPT !.txBuffer = Append(@, hash)]

\* clearTransactions().
clearTransactions(u) == [u EXCEPT !.transactions = <<>>, !.txBuffer = <<>>]

RECURSIVE filterOut(_, _)
filterOut(seq, hashes) ==
  IF seq = <<>> THEN <<>>
  ELSE IF Head(seq) \in hashes THEN filterOut(Tail(seq), hashes)
  ELSE <<Head(seq)>> \o filterOut(Tail(seq), hashes)

slice(seq, n) == SubSeq(seq, 1, IF Len(seq) < n THEN Len(seq) ELSE n)

\* The callback of the flush interval.
flush(u) ==
  IF Len(u.txBuffer) > 0
  THEN LET prev == u.transactions
           existingHashes == {prev[i] : i \in DOMAIN prev}
           newUnique == filterOut(u.txBuffer, existingHashes)
           combined == newUnique \o prev
       IN [u EXCEPT !.txBuffer = <<>>,
                    !.transactions = slice(combined, MAX_LIVE_TRANSACTIONS)]
  ELSE u

\* ------------------------------------------------------------ watcher state
FreshSocket == [rs |-> "NONE", sub |-> "none", ping |-> FALSE, method |-> "none", chainId |-> 0]

WState ==
  [isRunning |-> isRunning, sockets |-> sockets, clients |-> clients,
   unwatchFns |-> unwatchFns, reconnectTimers |-> reconnectTimers, armed |-> armed,
   out |-> <<>>, settled |-> NoSettle, lastStatus |-> lastStatus]

SetW(w) ==
  /\ isRunning' = w.isRunning
  /\ sockets' = w.sockets
  /\ clients' = w.clients
  /\ unwatchFns' = w.unwatchFns
  /\ reconnectTimers' = w.reconnectTimers
  /\ armed' = w.armed
  /\ out' = w.out
  /\ settled' = w.settled
  /\ lastStatus' = w.lastStatus

StatusEvent(kind, chainId) == [type |-> kind, chainId |-> chainId]

TxEvent(tx, overtaken) ==
  [type |-> "transaction", chainId |-> tx.chainId, hash |-> tx.hash,
   status |-> tx.status, overtaken |-> overtaken]

Emit(w, ev) ==
  [w EXCEPT !.out = Append(@, ev),
            !.lastStatus = IF ev.type \in {"connected", "disconnected"}
                           THEN [@ EXCEPT ![ev.chainId] = ev.type] ELSE @]

\* The slots that hold no live socket and that no map refers to.
FreeSlots(w) ==
  {s \in Slots : /\ w.sockets[s].rs = "NONE"
                 /\ \A c \in AllChains : w.clients[c] # s /\ w.unwatchFns[c] # s}

FreeSlot(w) == CHOOSE s \in FreeSlots(w) : \A t \in FreeSlots(w) : s <= t

\* ws.close(): a connecting or open socket starts closing, otherwise nothing.
wsClose(sock) ==
  [sock EXCEPT !.rs = IF @ \in {"CONNECTING", "OPEN"} THEN "CLOSING" ELSE @]

\* The closure stored in unwatchFns: ws.close(); clearInterval(pingInterval).
unwatch(w, s) ==
  [w EXCEPT !.sockets[s] = [wsClose(@) EXCEPT !.ping = FALSE]]

watchChainRaw(w, chainId, method) ==
  LET s == FreeSlot(w) IN
  [w EXCEPT !.sockets[s] =
              [rs |-> "CONNECTING", sub |-> "none", ping |-> TRUE, method |-> method,
               chainId |-> chainId],
            !.clients[chainId] = s,
            !.unwatchFns[chainId] = s]

\* Variant: watchChain that looks the dialect up without a default.
watchChainListedOnly(w, chainId) ==
  watchChainRaw(w, chainId,
                IF chainId \in DOMAIN SUBSCRIPTION_CONFIG
                THEN SUBSCRIPTION_CONFIG[chainId] ELSE "undefined")

watchChain(w, chainId) == watchChainRaw(w, chainId, SubConfig(chainId))

\* Variant: scheduleReconnect without the isRunning guard.
scheduleReconnectUnguarded(w, chainId) ==
  LET w1 == IF w.reconnectTimers[chainId]
            THEN [w EXCEPT !.armed[chainId] = @ - 1] ELSE w
      w2 == IF w1.unwatchFns[chainId] # NoSocket
            THEN [unwatch(w1, w1.unwatchFns[chainId])
                    EXCEPT !.unwatchFns[chainId] = NoSocket]
            ELSE w1
      w3 == [w2 EXCEPT !.clients[chainId] = NoSocket]
      w4 == Emit(w3, StatusEvent("disconnected", chainId))
  IN [w4 EXCEPT !.armed[chainId] = @ + 1, !.reconnectTimers[chainId] = TRUE]

\* Variant: scheduleReconnect that cleans up and emits disconnected but sets no timer.
scheduleReconnectNoTimer(w, chainId) ==
  IF ~w.isRunning THEN w
  ELSE
    LET w1 == IF w.reconnectTimers[chainId]
              THEN [w EXCEPT !.armed[chainId] = @ - 1, !.reconnectTimers[chainId] = FALSE]
              ELSE w
        w2 == IF w1.unwatchFns[chainId] # NoSocket
              THEN [unwatch(w1, w1.unwatchFns[chainId])
                      EXCEPT !.unwatchFns[chainId] = NoSocket]
              ELSE w1
        w3 == [w2 EXCEPT !.clients[chainId] = NoSocket]
    IN Emit(w3, StatusEvent("disconnected", chainId))

\* Variant: scheduleReconnect that arms a new timer and leaves the old one armed.
scheduleReconnectNoCancel(w, chainId) ==
  IF ~w.isRunning THEN w
  ELSE
    LET w2 == IF w.unwatchFns[chainId] # NoSocket
              THEN [unwatch(w, w.unwatchFns[chainId])
                      EXCEPT !.unwatchFns[chainId] = NoSocket]
              ELSE w
        w3 == [w2 EXCEPT !.clients[chainId] = NoSocket]
        w4 == Emit(w3, StatusEvent("disconnected", chainId))
    IN [w4 EXCEPT !.armed[chainId] = IF @ < 2 THEN @ + 1 ELSE @,
                  !.reconnectTimers[chainId] = TRUE]

\* Variant: scheduleReconnect that forgets the chain's socket without closing it.
scheduleReconnectKeepsSocket(w, chainId) ==
  IF ~w.isRunning THEN w
  ELSE
    LET w1 == IF w.reconnectTimers[chainId]
              THEN [w EXCEPT !.armed[chainId] = @ - 1] ELSE w
        w2 == [w1 EXCEPT !.unwatchFns[chainId] = NoSocket]
        w3 == [w2 EXCEPT !.clients[chainId] = NoSocket]
        w4 == Emit(w3, StatusEvent("disconnected", chainId))
    IN [w4 EXCEPT !.armed[chainId] = @ + 1, !.reconnectTimers[chainId] = TRUE]

scheduleReconnect(w, chainId) ==
  IF ~w.isRunning THEN w
  ELSE
    LET w1 == IF w.reconnectTimers[chainId]
              THEN [w EXCEPT !.armed[chainId] = @ - 1] ELSE w
        w2 == IF w1.unwatchFns[chainId] # NoSocket
              THEN [unwatch(w1, w1.unwatchFns[chainId])
                      EXCEPT !.unwatchFns[chainId] = NoSocket]
              ELSE w1
        w3 == [w2 EXCEPT !.clients[chainId] = NoSocket]
        w4 == Emit(w3, StatusEvent("disconnected", chainId))
    IN [w4 EXCEPT !.armed[chainId] = @ + 1, !.reconnectTimers[chainId] = TRUE]

RECURSIVE startLoop(_, _)
startLoop(w, cs) ==
  IF cs = <<>> THEN w ELSE startLoop(watchChain(w, Head(cs)), Tail(cs))

RECURSIVE stopLoop(_, _)
stopLoop(w, cs) ==
  IF cs = {} THEN w
  ELSE LET c == CHOOSE x \in cs : TRUE IN
       stopLoop(unwatch(w, w.unwatchFns[c]), cs \ {c})

\* Variant: start() without the test of isRunning.
startUnguarded(w) == startLoop([w EXCEPT !.isRunning = TRUE], chains)

start(w) ==
  IF w.isRunning THEN w
  ELSE startLoop([w EXCEPT !.isRunning = TRUE], chains)

stop(w) ==
  LET w1 == [w EXCEPT !.isRunning = FALSE,
                      !.armed = [c \in AllChains |->
                                   IF w.reconnectTimers[c] THEN @[c] - 1 ELSE @[c]],
                      !.reconnectTimers = [c \in AllChains |-> FALSE]]
      w2 == stopLoop(w1, {c \in AllChains : w1.unwatchFns[c] # NoSocket})
  IN [w2 EXCEPT !.unwatchFns = [c \in AllChains |-> NoSocket],
                !.clients = [c \in AllChains |-> NoSocket]]

\* ws.on('close'): clearInterval(pingInterval); scheduleReconnect(chainConfig).
onClose(w, s) ==
  scheduleReconnect([w EXCEPT !.sockets[s] = FreshSocket], w.sockets[s].chainId)

\* Variant: the open handler sends the eth_subscribe request and emits nothing.
onOpenUnannounced(w, s) ==
  [w EXCEPT !.sockets[s].rs = "OPEN", !.sockets[s].sub = "requested"]

\* ws.on('open'): emit connected, send the eth_subscribe request.
onOpen(w, s) ==
  Emit([w EXCEPT !.sockets[s].rs = "OPEN", !.sockets[s].sub = "requested"],
       StatusEvent("connected", w.sockets[s].chainId))

\* Variant: a frame that does not parse ends the connection.
onMessageUnparsedCloses(w, s) == onClose(w, s)

\* ws.on('message') on text that JSON.parse rejects: the catch logs the error.
onMessageUnparsed(w, s) == w

\* ---------------------------------------------------------------- hub state
NoPushes == [s \in Subs |-> <<>>]

NoMsg == [ws |-> NoSub, type |-> "none", array |-> FALSE, chains |-> {}]

HState ==
  [clients |-> hubClients, ds |-> dsState, reading |-> reading, buffered |-> buffered,
   pushed |-> NoPushes, received |-> NoMsg, threw |-> NoSub]

SetH(h) ==
  /\ hubClients' = h.clients
  /\ dsState' = h.ds
  /\ reading' = h.reading
  /\ buffered' = h.buffered
  /\ pushed' = h.pushed
  /\ received' = h.received
  /\ threw' = h.threw

Msg(type, chainId, hash, status, chainList) ==
  [type |-> type, chainId |-> chainId, hash |-> hash, status |-> status, chains |-> chainList]

TxMsg(tx) == Msg("transaction", tx.chainId, tx.hash, tx.status, {})

StatusMsg(chainId, status) == Msg("chainStatus", chainId, "", status, {})

HubIndex(h, ws) ==
  IF \E i \in DOMAIN h.clients : h.clients[i].ws = ws
  THEN CHOOSE i \in DOMAIN h.clients : h.clients[i].ws = ws
  ELSE 0

\* Map.delete(ws): the entry leaves the map, the order of the others is kept.
HubDelete(h, ws) ==
  [h EXCEPT !.clients = SelectSeq(@, LAMBDA e : e.ws # ws)]

\* ws.send(message) returning normally: the message is handed to the socket, which
\* buffers it until the peer reads.
wsSend(h, ws, msg) ==
  [h EXCEPT !.pushed[ws] = Append(@, msg),
            !.buffered[ws] = IF h.reading[ws] THEN 0
                             ELSE IF @ < MaxBuffered THEN @ + 1 ELSE @]

\* Variant: the filter is ignored.
shouldSendAny(state, chainId) == TRUE

shouldSend(state, chainId) ==
  state.subscribedChains = {} \/ chainId \in state.subscribedChains

\* Variant: the loop waits for a subscriber whose buffer is full and who does not
\* read, so it never gets to the entries after it.
RECURSIVE broadcastFromAwaitingDrain(_, _, _, _)
broadcastFromAwaitingDrain(h, i, tx, thrower) ==
  IF i > Len(h.clients) THEN h
  ELSE LET state == h.clients[i] IN
       IF shouldSend(state, tx.chainId) /\ h.ds[state.ws] = "OPEN"
       THEN IF state.ws = thrower
            THEN [h EXCEPT !.threw = thrower]
            ELSE IF ~h.reading[state.ws] /\ h.buffered[state.ws] = MaxBuffered
            THEN h
            ELSE broadcastFromAwaitingDrain(wsSend(h, state.ws, TxMsg(tx)), i + 1, tx, thrower)
       ELSE broadcastFromAwaitingDrain(h, i + 1, tx, thrower)

\* The for loop of broadcast from entry i on; thrower is the subscriber whose
\* ws.send throws (NoSub: none does), which ends the loop with the exception.
RECURSIVE broadcastFrom(_, _, _, _)
broadcastFrom(h, i, tx, thrower) ==
  IF i > Len(h.clients) THEN h
  ELSE LET state == h.clients[i] IN
       IF shouldSend(state, tx.chainId) /\ h.ds[state.ws] = "OPEN"
       THEN IF state.ws = thrower
            THEN [h EXCEPT !.threw = thrower]
            ELSE broadcastFrom(wsSend(h, state.ws, TxMsg(tx)), i + 1, tx, thrower)
       ELSE broadcastFrom(h, i + 1, tx, thrower)

broadcast(h, tx, thrower) == broadcastFrom(h, 1, tx, thrower)

RECURSIVE statusFrom(_, _, _, _)
statusFrom(h, i, msg, thrower) ==
  IF i > Len(h.clients) THEN h
  ELSE LET ws == h.clients[i].ws IN
       IF h.ds[ws] = "OPEN"
       THEN IF ws = thrower
            THEN [h EXCEPT !.threw = thrower]
            ELSE statusFrom(wsSend(h, ws, msg), i + 1, msg, thrower)
       ELSE statusFrom(h, i + 1, msg, thrower)

broadcastChainStatus(h, chainId, status, thrower) ==
  statusFrom(h, 1, StatusMsg(chainId, status), thrower)

\* The listeners main() registers on the watcher, applied to the events of one
\* handler run in the order they were emitted.
RECURSIVE wire(_, _)
wire(h, events) ==
  IF events = <<>> THEN h
  ELSE LET ev == Head(events)
           h1 == IF ev.type = "transaction" THEN broadcast(h, ev, NoSub)
                 ELSE broadcastChainStatus(h, ev.chainId, ev.type, NoSub)
       IN wire(h1, Tail(events))

\* A watcher handler run: the watcher state it leaves and the pushes of its events.
Run(w) == SetW(w) /\ SetH(wire(HState, w.out))


\* ------------------------------------------------------------------- store
Tx(chainId, hash, status) == [chainId |-> chainId, hash |-> hash, status |-> status]

\* Variant: a plain create where the hash was not found when the call was issued,
\* on a table that does not reject a second record of a hash.
upsertCreateUnchecked(st, tx) ==
  IF ~tx.existed
  THEN [st EXCEPT ![tx.hash] = [chainId |-> tx.chainId, status |-> tx.status,
                                n |-> IF @.n < 2 THEN @.n + 1 ELSE @.n]]
  ELSE [st EXCEPT ![tx.hash].status = tx.status]

\* Variant: an update that creates nothing.
upsertUpdateOnly(st, tx) ==
  IF st[tx.hash] = NoRow THEN st ELSE [st EXCEPT ![tx.hash].status = tx.status]

\* prisma.transaction.upsert({where: {hash}, update: {status}, create: {...}}): hash
\* is the unique key the row is looked up by; one record is created when none is
\* there, else the status of the record is updated.
upsert(st, tx) ==
  IF st[tx.hash] = NoRow
  THEN [st EXCEPT ![tx.hash] = [chainId |-> tx.chainId, status |-> tx.status, n |-> 1]]
  ELSE [st EXCEPT ![tx.hash].status = tx.status]

\* The store validates the arguments of an upsert before it looks anything up: the
\* key and the required columns of the create data must be there and the integer
\* columns must hold integers.  An upsert that fails this test rejects.
Storable(rec) ==
  \/ ~rec.payload.decoded
  \/ LET tx == rawTxToPendingTransaction(rec.payload.raw).tx
     IN tx.hash.def /\ tx.from.def /\ tx.nonce.int /\ tx.type.int

\* ------------------------------------------------------- suspended handlers
\* handleTransaction up to its await: the upsert is issued.
AwaitUpsert(chainId, hash, status, rest, overtaken, st) ==
  [chainId |-> chainId, pc |-> "upsert", hash |-> hash, status |-> status,
   existed |-> st[hash] # NoRow, rest |-> rest, overtaken |-> overtaken,
   payload |-> NoPayload]

\* fetchBlockTransactions up to its await: the HTTP request is issued.
AwaitFetch(chainId) ==
  [chainId |-> chainId, pc |-> "fetch", hash |-> "", status |-> "confirmed",
   existed |-> FALSE, rest |-> <<>>, overtaken |-> FALSE, payload |-> NoPayload]

RemoveAt(seq, i) == SubSeq(seq, 1, i - 1) \o SubSeq(seq, i + 1, Len(seq))

\* Handlers of the chain that arrived before handler i are overtaken once i broadcasts.
Overtake(seq, i) ==
  [j \in DOMAIN seq |->
     IF j < i /\ seq[j].chainId = seq[i].chainId
     THEN [seq[j] EXCEPT !.overtaken = TRUE] ELSE seq[j]]

BlockLists == UNION {[1..n -> Hashes] : n \in 0..MaxBlockTxs}

\* ----------------------------------------------------------------- actions
\* The watcher and the hub as their constructors leave them, and the browser client
\* before its first effect has run.
Constructed ==
  /\ ui = NoUi
  /\ isRunning = FALSE
  /\ sockets = [s \in Slots |-> FreshSocket]
  /\ clients = [c \in AllChains |-> NoSocket]
  /\ unwatchFns = [c \in AllChains |-> NoSocket]
  /\ reconnectTimers = [c \in AllChains |-> FALSE]
  /\ armed = [c \in AllChains |-> 0]
  /\ inflight = <<>>
  /\ store = [h \in Hashes |-> NoRow]
  /\ out = <<>>
  /\ settled = NoSettle
  /\ lastStatus = [c \in AllChains |-> "none"]
  /\ hubClients = <<>>
  /\ dsState = [s \in Subs |-> "NONE"]
  /\ reading = [s \in Subs |-> TRUE]
  /\ buffered = [s \in Subs |-> 0]
  /\ pushed = NoPushes
  /\ received = NoMsg
  /\ threw = NoSub

\* main() has validated and stored the configuration and constructed the hub and
\* the watcher with one of the chain lists in configs.
InitWith(configs) ==
  /\ chains \in configs
  /\ norm = NoNorm
  /\ boot = NoBoot
  /\ main = [pc |-> "constructed", loaded |-> <<>>, next |-> 0, chainRows |-> {},
             created |-> TRUE, shutdown |-> "no", exitCode |-> 0, dropped |-> {}]
  /\ Constructed

Init == InitWith(ChainConfigs)

\* MempoolWatcher.start() on a stopped watcher.
Start ==
  /\ ~isRunning
  /\ Cardinality(FreeSlots(WState)) >= Len(chains)
  /\ Run(start(WState))
  /\ UNCHANGED <<ui, boot, norm, main, chains, inflight, store>>

\* MempoolWatcher.start() on a running watcher.
StartWhileRunning ==
  /\ isRunning
  /\ Cardinality(FreeSlots(WState)) >= Len(chains)
  /\ Run(start(WState))
  /\ UNCHANGED <<ui, boot, norm, main, chains, inflight, store>>

\* MempoolWatcher.stop().
Stop ==
  /\ Run(stop(WState))
  /\ UNCHANGED <<ui, boot, norm, main, chains, inflight, store>>

\* The setTimeout callback of scheduleReconnect.
TimerFires(c) ==
  /\ armed[c] > 0
  /\ LET w1 == [WState EXCEPT !.armed[c] = @ - 1, !.reconnectTimers[c] = FALSE] IN
     /\ FreeSlots(w1) # {}
     /\ Run(watchChain(w1, c))
  /\ UNCHANGED <<ui, boot, norm, main, chains, inflight, store>>

\* The upstream accepts the connection: 'open'.
UpstreamAccept(s) ==
  /\ sockets[s].rs = "CONNECTING"
  /\ Run(onOpen(WState, s))
  /\ UNCHANGED <<ui, boot, norm, main, chains, inflight, store>>

\* The connection attempt fails: 'error', then 'close'.
UpstreamRefuse(s) ==
  /\ sockets[s].rs = "CONNECTING"
  /\ Run(onClose(WState, s))
  /\ UNCHANGED <<ui, boot, norm, main, chains, inflight, store>>

\* The upstream closes an open socket: 'close'.
UpstreamClose(s) ==
  /\ sockets[s].rs = "OPEN"
  /\ Run(onClose(WState, s))
  /\ UNCHANGED <<ui, boot, norm, main, chains, inflight, store>>

\* A socket closed by ws.close() finishes closing: 'close'.
CloseEvent(s) ==
  /\ sockets[s].rs = "CLOSING"
  /\ Run(onClose(WState, s))
  /\ UNCHANGED <<ui, boot, norm, main, chains, inflight, store>>

Receiving(s) == sockets[s].rs \in {"OPEN", "CLOSING"}

\* 'message' with {id: 1, result}: the subscription id is recorded.
UpstreamAck(s) ==
  /\ Receiving(s)
  /\ sockets[s].sub = "requested"
  /\ Run([WState EXCEPT !.sockets[s].sub = "acked"])
  /\ UNCHANGED <<ui, boot, norm, main, chains, inflight, store>>

\* 'message' with {error}: logged, the handler returns.
UpstreamSubscribeError(s) ==
  /\ Receiving(s)
  /\ sockets[s].sub = "requested"
  /\ Run([WState EXCEPT !.sockets[s].sub = "rejected"])
  /\ UNCHANGED <<ui, boot, norm, main, chains, inflight, store>>

\* 'message' with an eth_subscription notification, up to the handler's first await.
handleSubscriptionEvent(c, method, result) ==
  IF method = "alchemy_pendingTransactions"
  THEN <<AwaitUpsert(c, result.hash, "pending", <<>>, FALSE, store)>>
  ELSE IF method = "alchemy_minedTransactions"
  THEN IF ~result.removed
       THEN <<AwaitUpsert(c, result.hash, "confirmed", <<>>, FALSE, store)>>
       ELSE <<>>
  ELSE IF method = "newHeads"
  THEN IF result.number # "" /\ result.hash # "" THEN <<AwaitFetch(c)>> ELSE <<>>
  ELSE <<>>

\* The results a notification may carry: a transaction (with its removed flag on
\* the mined dialect), or a block header whose number and hash may be missing ("").
Results(method) ==
  IF method = "alchemy_minedTransactions"
  THEN [removed : BOOLEAN, hash : Hashes]
  ELSE IF method = "alchemy_pendingTransactions"
  THEN [removed : {FALSE}, hash : Hashes]
  ELSE [removed : {FALSE}, hash : {"", "0xb1"}, number : {"", "0x10"}]

\* The store key of a decoded hash.  An upsert without a hash is rejected before
\* any row is looked up, whatever key it is filed under here.
HashKey(v) == IF v = Hex(<<"a">>) THEN "h1" ELSE "h2"

\* The transaction objects a notification may carry, well-formed or not.
Payloads ==
  [hash : {Undefined, Hex(<<"a">>)},
   from : {Undefined, Hex(<<"b">>)},
   value : {Hex(<<"1", "f">>), Hex(<<"z">>)},
   gasPrice : {Undefined},
   maxFeePerGas : {Undefined},
   gas : {Undefined},
   nonce : {Hex(<<"5">>), Hex(<<"5", "z">>), Str(<<"z">>)},
   type : {Hex(<<"2">>)}]

\* params.result of a notification: the transaction object itself (pending
\* dialect) or {removed, transaction} (mined dialect), where the object may be
\* missing.
DecodedResults(method) ==
  IF method = "alchemy_minedTransactions"
  THEN [removed : BOOLEAN, present : {TRUE}, transaction : Payloads]
       \cup [removed : BOOLEAN, present : {FALSE}, transaction : {NoArg}]
  ELSE [removed : {FALSE}, present : {TRUE}, transaction : Payloads]

\* handleSubscriptionEvent on a payload that need not decode, up to its first
\* await: the normalizer call it makes, if any, and the handler it suspends.  A
\* SyntaxError of the normalizer is caught and logged.
handleSubscriptionEventDecoding(c, method, result) ==
  LET call == [fn |-> "raw", arg |-> result.transaction,
               res |-> rawTxToPendingTransaction(result.transaction)]
      status == IF method = "alchemy_pendingTransactions" THEN "pending" ELSE "confirmed"
      calls == IF method = "alchemy_pendingTransactions"
               THEN result.present /\ Truthy(result.transaction.hash)
               ELSE IF method = "alchemy_minedTransactions"
               THEN result.present /\ ~result.removed
               ELSE FALSE
  IN IF ~calls THEN [norm |-> norm, add |-> <<>>]
     ELSE IF call.res.threw THEN [norm |-> call, add |-> <<>>]
     ELSE [norm |-> call,
           add |-> <<[AwaitUpsert(c, HashKey(call.res.tx.hash), status, <<>>, FALSE, store)
                        EXCEPT !.payload = [decoded |-> TRUE, raw |-> result.transaction]]>>]

UpstreamNotifyDecoding(s) ==
  /\ Receiving(s)
  /\ sockets[s].sub = "acked"
  /\ Len(inflight) < MaxInFlight
  /\ \E result \in DecodedResults(sockets[s].method) :
       LET h == handleSubscriptionEventDecoding(sockets[s].chainId, sockets[s].method, result)
       IN inflight' = inflight \o h.add /\ norm' = h.norm
  /\ Run(WState)
  /\ UNCHANGED <<ui, boot, main, chains, store>>

\* JSON.parse as the call recorded last: it threw.
ParseThrew == [fn |-> "JSON.parse", arg |-> NoArg, res |-> [threw |-> TRUE, tx |-> NoTx]]

\* 'message' with text that is not JSON.
UpstreamMalformed(s) ==
  /\ Receiving(s)
  /\ norm' = ParseThrew
  /\ Run(onMessageUnparsed(WState, s))
  /\ UNCHANGED <<ui, boot, main, chains, inflight, store>>

UpstreamNotify(s) ==
  /\ Receiving(s)
  /\ sockets[s].sub = "acked"
  /\ Len(inflight) < MaxInFlight
  /\ \E result \in Results(sockets[s].method) :
       inflight' = inflight \o handleSubscriptionEvent(sockets[s].chainId, sockets[s].method, result)
  /\ Run(WState)
  /\ UNCHANGED <<ui, boot, norm, main, chains, store>>

\* The handler continues after handleTransaction returned: the next transaction
\* of the block, or the end of the handler.
Continue(seq, i, st) ==
  IF seq[i].rest = <<>> THEN RemoveAt(seq, i)
  ELSE [seq EXCEPT ![i] = AwaitUpsert(@.chainId, Head(@.rest), @.status, Tail(@.rest),
                                      @.overtaken, st)]

\* Variant: handleTransaction with the emit after the try statement.
handleTransactionResumesEmitsAlways(i, outcome) ==
  LET rec == inflight[i]
      w == [WState EXCEPT !.settled = [chainId |-> rec.chainId, hash |-> rec.hash,
                                       status |-> rec.status, outcome |-> outcome,
                                       raced |-> ~rec.existed /\ store[rec.hash] # NoRow,
                                       payload |-> rec.payload]]
  IN
  /\ store' = IF outcome = "ok" THEN upsert(store, rec) ELSE store
  /\ inflight' = Continue(Overtake(inflight, i), i, store')
  /\ Run(Emit(w, TxEvent(rec, rec.overtaken)))

\* handleTransaction after its await: the upsert resolved, or rejected with err.
handleTransactionResumes(i, outcome) ==
  LET rec == inflight[i]
      \* raced: the hash was not stored when the upsert was issued and is now.
      w == [WState EXCEPT !.settled = [chainId |-> rec.chainId, hash |-> rec.hash,
                                       status |-> rec.status, outcome |-> outcome,
                                       raced |-> ~rec.existed /\ store[rec.hash] # NoRow,
                                       payload |-> rec.payload]]
  IN
  IF outcome = "ok"
  THEN /\ store' = upsert(store, rec)
       /\ inflight' = Continue(Overtake(inflight, i), i, store')
       /\ Run(Emit(w, TxEvent(rec, rec.overtaken)))
  ELSE /\ store' = store
       /\ inflight' = Continue(inflight, i, store)
       /\ Run(w)

UpsertCompletes(i) ==
  /\ i \in DOMAIN inflight
  /\ inflight[i].pc = "upsert"
  /\ \E outcome \in {"ok", "unique", "error"} :
       /\ outcome = "unique" => (~inflight[i].existed /\ store[inflight[i].hash] # NoRow)
       /\ outcome # "error" => Storable(inflight[i])
       /\ handleTransactionResumes(i, outcome)
  /\ UNCHANGED <<ui, boot, norm, main, chains>>

\* fetchBlockTransactions after its await: the block's transactions, or a failure.
FetchCompletes(i) ==
  /\ i \in DOMAIN inflight
  /\ inflight[i].pc = "fetch"
  /\ \/ \E txs \in BlockLists :
          inflight' = Continue([inflight EXCEPT ![i].rest = txs], i, store)
     \/ inflight' = RemoveAt(inflight, i)
  /\ Run(WState)
  /\ UNCHANGED <<ui, boot, norm, main, chains, store>>

\* --------------------------------------------------------------- hub actions
ConnectedMsg == Msg("connected", 0, "", "", {})

\* Variant: the client is registered and the confirmation is left to a later turn.
onConnectionUnconfirmed(h, ws) ==
  [h EXCEPT !.clients = Append(@, [ws |-> ws, subscribedChains |-> {}]),
            !.ds[ws] = "OPEN", !.reading[ws] = TRUE, !.buffered[ws] = 0]

\* wss.on('connection'): the client is registered with an empty filter and sent
\* the connection confirmation.
onConnection(h, ws) ==
  wsSend([h EXCEPT !.clients = Append(@, [ws |-> ws, subscribedChains |-> {}]),
                   !.ds[ws] = "OPEN", !.reading[ws] = TRUE, !.buffered[ws] = 0],
         ws, ConnectedMsg)

HubConnect(ws) ==
  /\ dsState[ws] = "NONE"
  /\ SetH(onConnection(HState, ws))
  /\ out' = <<>> /\ settled' = NoSettle
  /\ UNCHANGED <<ui, boot, norm, main, chains, isRunning, sockets, clients, unwatchFns, reconnectTimers, armed,
                 inflight, store, lastStatus>>

\* array: msg.chains is an array (of the chain ids in chains).
ClientMessages ==
  [type : {"subscribe"}, array : {TRUE}, chains : SUBSET FilterIds] \cup
  [type : {"subscribe", "unsubscribe", "ping", "other"}, array : {FALSE}, chains : {{}}]

\* Variant: subscribe adds the given chains to the filter.
handleClientMessageMerging(h, ws, msg) ==
  LET i == HubIndex(h, ws) IN
  IF msg.type = "subscribe"
  THEN IF msg.array /\ i # 0
       THEN wsSend([h EXCEPT !.clients[i].subscribedChains = @ \cup msg.chains],
                   ws, Msg("subscribed", 0, "", "", msg.chains))
       ELSE h
  ELSE IF msg.type = "unsubscribe"
  THEN IF i # 0
       THEN wsSend([h EXCEPT !.clients[i].subscribedChains = {}],
                   ws, Msg("subscribed", 0, "", "", {}))
       ELSE h
  ELSE IF msg.type = "ping" THEN wsSend(h, ws, Msg("pong", 0, "", "", {}))
  ELSE h

handleClientMessage(h, ws, msg) ==
  LET i == HubIndex(h, ws) IN
  IF msg.type = "subscribe"
  THEN IF msg.array /\ i # 0
       THEN wsSend([h EXCEPT !.clients[i].subscribedChains = msg.chains],
                   ws, Msg("subscribed", 0, "", "", msg.chains))
       ELSE h
  ELSE IF msg.type = "unsubscribe"
  THEN IF i # 0
       THEN wsSend([h EXCEPT !.clients[i].subscribedChains = {}],
                   ws, Msg("subscribed", 0, "", "", {}))
       ELSE h
  ELSE IF msg.type = "ping" THEN wsSend(h, ws, Msg("pong", 0, "", "", {}))
  ELSE h

\* ws.on('message') of a downstream socket.
HubClientMessage(ws) ==
  /\ dsState[ws] = "OPEN"
  /\ \E msg \in ClientMessages :
       SetH(handleClientMessage([HState EXCEPT !.received = [ws |-> ws, type |-> msg.type,
                                                            array |-> msg.array,
                                                            chains |-> msg.chains]],
                                ws, msg))
  /\ out' = <<>> /\ settled' = NoSettle
  /\ UNCHANGED <<ui, boot, norm, main, chains, isRunning, sockets, clients, unwatchFns, reconnectTimers, armed,
                 inflight, store, lastStatus>>

\* The connection breaks or the peer closes it: the socket is no longer OPEN and
\* its 'error' (a failure) or 'close' event is due.
HubConnectionLost(ws) ==
  /\ dsState[ws] = "OPEN"
  /\ \E next \in {"ERRORED", "CLOSING"} : SetH([HState EXCEPT !.ds[ws] = next])
  /\ out' = <<>> /\ settled' = NoSettle
  /\ UNCHANGED <<ui, boot, norm, main, chains, isRunning, sockets, clients, unwatchFns, reconnectTimers, armed,
                 inflight, store, lastStatus>>

\* ws.on('error'): the client is deleted; 'close' follows.
HubErrorEvent(ws) ==
  /\ dsState[ws] = "ERRORED"
  /\ SetH([HubDelete(HState, ws) EXCEPT !.ds[ws] = "CLOSING"])
  /\ out' = <<>> /\ settled' = NoSettle
  /\ UNCHANGED <<ui, boot, norm, main, chains, isRunning, sockets, clients, unwatchFns, reconnectTimers, armed,
                 inflight, store, lastStatus>>

\* ws.on('close'): the client is deleted.
HubCloseEvent(ws) ==
  /\ dsState[ws] = "CLOSING"
  /\ SetH([HubDelete(HState, ws) EXCEPT !.ds[ws] = "NONE", !.reading[ws] = TRUE,
                                        !.buffered[ws] = 0])
  /\ out' = <<>> /\ settled' = NoSettle
  /\ UNCHANGED <<ui, boot, norm, main, chains, isRunning, sockets, clients, unwatchFns, reconnectTimers, armed,
                 inflight, store, lastStatus>>

\* The subscriber's peer stops draining its connection.
SubscriberStopsReading(ws) ==
  /\ dsState[ws] = "OPEN"
  /\ reading[ws]
  /\ SetH([HState EXCEPT !.reading[ws] = FALSE])
  /\ out' = <<>> /\ settled' = NoSettle
  /\ UNCHANGED <<ui, boot, norm, main, chains, isRunning, sockets, clients, unwatchFns, reconnectTimers, armed,
                 inflight, store, lastStatus>>

\* The peer reads again and drains what was buffered.
SubscriberResumes(ws) ==
  /\ dsState[ws] = "OPEN"
  /\ ~reading[ws]
  /\ SetH([HState EXCEPT !.reading[ws] = TRUE, !.buffered[ws] = 0])
  /\ out' = <<>> /\ settled' = NoSettle
  /\ UNCHANGED <<ui, boot, norm, main, chains, isRunning, sockets, clients, unwatchFns, reconnectTimers, armed,
                 inflight, store, lastStatus>>

StatusOf(chainId) ==
  IF SubConfig(chainId) = "alchemy_pendingTransactions" THEN "pending" ELSE "confirmed"

\* watcher.on('transaction', tx => broadcaster.broadcast(tx)) for an emitted tx.
OnTransaction ==
  /\ \E c \in AllChains, thrower \in Subs \cup {NoSub} :
       /\ out' = <<TxEvent(Tx(c, "h1", StatusOf(c)), FALSE)>> /\ settled' = NoSettle
       /\ SetH(broadcast(HState, Tx(c, "h1", StatusOf(c)), thrower))
  /\ UNCHANGED <<ui, boot, norm, main, chains, isRunning, sockets, clients, unwatchFns, reconnectTimers, armed,
                 inflight, store, lastStatus>>

\* watcher.on('connected' / 'disconnected', chainId => broadcastChainStatus(...)).
OnChainStatus ==
  /\ \E c \in AllChains, status \in {"connected", "disconnected"},
        thrower \in Subs \cup {NoSub} :
       /\ out' = <<StatusEvent(status, c)>> /\ settled' = NoSettle
       /\ SetH(broadcastChainStatus(HState, c, status, thrower))
  /\ UNCHANGED <<ui, boot, norm, main, chains, isRunning, sockets, clients, unwatchFns, reconnectTimers, armed,
                 inflight, store, lastStatus>>

NextHub ==
  \/ \E ws \in Subs : HubConnect(ws)
  \/ \E ws \in Subs : HubClientMessage(ws)
  \/ \E ws \in Subs : HubConnectionLost(ws)
  \/ \E ws \in Subs : HubErrorEvent(ws)
  \/ \E ws \in Subs : HubCloseEvent(ws)
  \/ \E ws \in Subs : SubscriberStopsReading(ws)
  \/ \E ws \in Subs : SubscriberResumes(ws)
  \/ OnTransaction
  \/ OnChainStatus

\* The hub under arbitrary subscribers and arbitrary emitted events.
InitHub == InitWith({<<1, 8453>>})

SpecHub == InitHub /\ [][NextHub]_vars

Next ==
  \/ Start
  \/ Stop
  \/ \E c \in ChainSet : TimerFires(c)
  \/ \E s \in Slots : UpstreamAccept(s)
  \/ \E s \in Slots : UpstreamRefuse(s)
  \/ \E s \in Slots : UpstreamClose(s)
  \/ \E s \in Slots : CloseEvent(s)
  \/ \E s \in Slots : UpstreamAck(s)
  \/ \E s \in Slots : UpstreamSubscribeError(s)
  \/ \E s \in Slots : UpstreamNotify(s)
  \/ \E i \in 1..MaxInFlight : UpsertCompletes(i)
  \/ \E i \in 1..MaxInFlight : FetchCompletes(i)

\* One session, every handler, every outcome of the upstream, the store and the fetch.
Spec == Init /\ [][Next]_vars

\* Connection handling of two sessions.  The message handlers read a socket's state
\* and never write the sockets, the maps or the timers, so the sessions' connection
\* states under Next are those reached here.
NextSessions ==
  \/ Start
  \/ Stop
  \/ \E c \in ChainSet : TimerFires(c)
  \/ \E s \in Slots : UpstreamAccept(s)
  \/ \E s \in Slots : UpstreamRefuse(s)
  \/ \E s \in Slots : UpstreamClose(s)
  \/ \E s \in Slots : CloseEvent(s)
  \/ \E s \in Slots : UpstreamAck(s)
  \/ \E s \in Slots : UpstreamSubscribeError(s)

InitTwoChains == InitWith({<<1, 8453>>})

\* Connection handling of one session that may be stopped and started again while
\* an earlier socket of its chain is still closing.
SpecRestarts == Init /\ [][NextSessions]_vars

\* The same session when start() may also be called while it is running.
NextStarts ==
  \/ NextSessions
  \/ StartWhileRunning

SpecStarts == Init /\ [][NextStarts]_vars

\* Two sessions, one of a chain SUBSCRIPTION_CONFIG lists and one of a chain it
\* does not list.
SpecDialects == InitWith({<<1, 56>>, <<56, 8453>>}) /\ [][NextSessions]_vars

SpecSessions == InitTwoChains /\ [][NextSessions]_vars

\* Two sessions that stay connected and stream into the shared store.
NextStreams ==
  \/ Start
  \/ \E s \in Slots : UpstreamAccept(s)
  \/ \E s \in Slots : UpstreamAck(s)
  \/ \E s \in Slots : UpstreamNotify(s)
  \/ \E i \in 1..MaxInFlight : UpsertCompletes(i)

SpecStreams == InitTwoChains /\ [][NextStreams]_vars


\* Two sessions of a watcher that is started and never stopped, against an upstream
\* that refuses or drops connections at will and acknowledges every subscribe request
\* it answers, but accepts a connection attempt of a chain if the chain keeps
\* attempting.  The runtime fires a timer that stays armed.
TwoChainConfigs == {<<1, 8453>>, <<1, 143>>, <<8453, 143>>}

InitLive == InitWith(TwoChainConfigs)

NextLive ==
  \/ Start
  \/ \E c \in ChainSet : TimerFires(c)
  \/ \E s \in Slots : UpstreamAccept(s)
  \/ \E s \in Slots : UpstreamRefuse(s)
  \/ \E s \in Slots : UpstreamClose(s)
  \/ \E s \in Slots : UpstreamAck(s)

AcceptChain(c) == \E s \in Slots : sockets[s].chainId = c /\ UpstreamAccept(s)

AckChain(c) == \E s \in Slots : sockets[s].chainId = c /\ UpstreamAck(s)

LiveSpec ==
  /\ InitLive
  /\ [][NextLive]_vars
  /\ \A c \in AllChains : WF_vars(TimerFires(c))
  /\ \A c \in AllChains : SF_vars(AcceptChain(c))
  /\ \A c \in AllChains : SF_vars(AckChain(c))

\* ------------------------------------------------------------------- main()
\* Strings that validateChainConfig inspects are sequences of characters.
WssPrefix == <<"w", "s", "s", ":", "/", "/">>

WsUrls ==
  {WssPrefix \o <<"h">>, <<"w", "s", ":", "/", "/", "h">>,
   <<"h", "t", "t", "p", "s", ":", "/", "/", "h">>}

\* loadChainsFromEnv stops at the first index without a name, so a loaded name is a
\* non-empty string; it may be all whitespace.
Names == {<<"e", "t", "h">>, <<" ">>, <<" ", "e", " ">>}

ParsedIds == {Num(1), Num(8453), Num(0), Num(-1), NaN}

ChainConfig == [name : Names, id : ParsedIds, wsUrl : WsUrls]

MaxLoaded == 2

LoadedConfigs == UNION {[1..n -> ChainConfig] : n \in 0..MaxLoaded}

RECURSIVE trimStart(_)
trimStart(s) == IF s # <<>> /\ Head(s) = " " THEN trimStart(Tail(s)) ELSE s

RECURSIVE trimEnd(_)
trimEnd(s) ==
  IF s # <<>> /\ s[Len(s)] = " " THEN trimEnd(SubSeq(s, 1, Len(s) - 1)) ELSE s

trim(s) == trimEnd(trimStart(s))

startsWith(s, prefix) == Len(s) >= Len(prefix) /\ SubSeq(s, 1, Len(prefix)) = prefix

validateChainConfigAnyScheme(config) ==
  IF config.name = <<>> \/ trim(config.name) = <<>> THEN FALSE
  ELSE IF ~config.id.int \/ config.id.n <= 0 THEN FALSE
  ELSE config.wsUrl # <<>>

validateChainConfig(config) ==
  IF config.name = <<>> \/ trim(config.name) = <<>> THEN FALSE
  ELSE IF ~config.id.int \/ config.id.n <= 0 THEN FALSE
  ELSE IF config.wsUrl = <<>> \/ ~startsWith(config.wsUrl, WssPrefix) THEN FALSE
  ELSE TRUE

\* main() has loaded the configuration and is about to inspect it.
InitMain ==
  /\ chains = <<>>
  /\ norm = NoNorm
  /\ boot = NoBoot
  /\ \E loaded \in LoadedConfigs :
       main = [pc |-> "loaded", loaded |-> loaded, next |-> 0, chainRows |-> {},
               created |-> FALSE, shutdown |-> "no", exitCode |-> 0, dropped |-> {}]
  /\ Constructed

\* The process lives: its handlers can run.
Alive == main.pc \in {"running", "disconnecting"}

\* process.exit(code): every socket and connection of the process is closed and no
\* code runs afterwards.  The store outlives the process.  dropped holds the
\* subscribers whose connection the exit closed.
processExit(m, code) ==
  /\ main' = [m EXCEPT !.pc = "exited", !.exitCode = code,
                       !.dropped = {ws \in Subs : dsState[ws] # "NONE"}]
  /\ isRunning' = FALSE
  /\ sockets' = [s \in Slots |-> FreshSocket]
  /\ clients' = [c \in AllChains |-> NoSocket]
  /\ unwatchFns' = [c \in AllChains |-> NoSocket]
  /\ reconnectTimers' = [c \in AllChains |-> FALSE]
  /\ armed' = [c \in AllChains |-> 0]
  /\ inflight' = <<>>
  /\ out' = <<>>
  /\ settled' = NoSettle
  /\ lastStatus' = [c \in AllChains |-> "none"]
  /\ hubClients' = <<>>
  /\ dsState' = [s \in Subs |-> "NONE"]
  /\ reading' = [s \in Subs |-> TRUE]
  /\ buffered' = [s \in Subs |-> 0]
  /\ pushed' = NoPushes
  /\ received' = NoMsg
  /\ threw' = NoSub
  /\ UNCHANGED <<ui, boot, norm, chains, store>>

\* main() from the emptiness test through the validation loop, up to the first
\* awaited prisma.chain.upsert.
MainValidate ==
  /\ main.pc = "loaded"
  /\ IF Len(main.loaded) = 0 \/ \E i \in DOMAIN main.loaded : ~validateChainConfig(main.loaded[i])
     THEN processExit(main, 1)
     ELSE /\ main' = [main EXCEPT !.pc = "sync", !.next = 1]
          /\ chains' = [i \in DOMAIN main.loaded |-> main.loaded[i].id.n]
          /\ UNCHANGED <<ui, boot, norm, isRunning, sockets, clients, unwatchFns, reconnectTimers,
                         armed, inflight, store, out, settled, lastStatus, hvars>>

\* An awaited prisma.chain.upsert resolves.  After the last one main() constructs
\* the hub and the watcher, wires them, listens, starts the watcher and registers
\* the signal handlers, all before the event loop runs another handler.
MainSyncResumes ==
  /\ main.pc = "sync"
  /\ IF main.next < Len(chains)
     THEN /\ main' = [main EXCEPT !.next = @ + 1, !.chainRows = @ \cup {chains[main.next]}]
          /\ UNCHANGED <<ui, boot, norm, chains, isRunning, sockets, clients, unwatchFns, reconnectTimers,
                         armed, inflight, store, out, settled, lastStatus, hvars>>
     ELSE /\ Cardinality(FreeSlots(WState)) >= Len(chains)
          /\ main' = [main EXCEPT !.pc = "running", !.created = TRUE,
                                  !.chainRows = @ \cup {chains[main.next]}]
          /\ Run(start(WState))
          /\ UNCHANGED <<ui, boot, norm, chains, inflight, store>>

\* An awaited prisma.chain.upsert rejects: main().catch exits.
MainSyncFails ==
  /\ main.pc = "sync"
  /\ processExit(main, 1)

\* SIGINT or SIGTERM: shutdown() runs watcher.stop() and awaits prisma.$disconnect().
ShutdownSignal ==
  /\ Alive
  /\ main' = [main EXCEPT !.pc = "disconnecting", !.shutdown = "running"]
  /\ Run(stop(WState))
  /\ UNCHANGED <<ui, boot, norm, chains, inflight, store>>

\* server.close() stops accepting connections and keeps the established ones.
ShutdownResumesWithoutExit ==
  /\ main.pc = "disconnecting"
  /\ main' = [main EXCEPT !.pc = "closed", !.shutdown = "done"]
  /\ out' = <<>> /\ settled' = NoSettle /\ pushed' = NoPushes
  /\ received' = NoMsg /\ threw' = NoSub
  /\ UNCHANGED <<ui, boot, norm, chains, isRunning, sockets, clients, unwatchFns, reconnectTimers, armed,
                 inflight, store, lastStatus, hubClients, dsState, reading, buffered>>

\* prisma.$disconnect() resolves: server.close(); process.exit(0).
ShutdownResumes ==
  /\ main.pc = "disconnecting"
  /\ processExit([main EXCEPT !.shutdown = "done"], 0)

\* prisma.$disconnect() rejects: shutdown() ends in an unhandled rejection, which
\* terminates the process with code 1 or is only reported, as the runtime is set.
ShutdownDisconnectFails ==
  /\ main.pc = "disconnecting"
  /\ \/ processExit([main EXCEPT !.shutdown = "failed"], 1)
     \/ /\ main' = [main EXCEPT !.pc = "running", !.shutdown = "failed"]
        /\ out' = <<>> /\ settled' = NoSettle /\ pushed' = NoPushes
        /\ received' = NoMsg /\ threw' = NoSub
        /\ UNCHANGED <<ui, boot, norm, chains, isRunning, sockets, clients, unwatchFns, reconnectTimers,
                       armed, inflight, store, lastStatus, hubClients, dsState, reading,
                       buffered>>

NextMain ==
  \/ MainValidate
  \/ MainSyncResumes
  \/ MainSyncFails
  \/ ShutdownSignal
  \/ ShutdownResumes
  \/ ShutdownDisconnectFails
  \/ Alive /\ \E c \in ChainSet : TimerFires(c)
  \/ Alive /\ \E s \in Slots : UpstreamAccept(s)
  \/ Alive /\ \E s \in Slots : UpstreamClose(s)
  \/ Alive /\ \E s \in Slots : CloseEvent(s)
  \/ Alive /\ \E s \in Slots : UpstreamAck(s)
  \/ Alive /\ \E ws \in Subs : HubConnect(ws)

\* The process from the loaded configuration to its exit.  What it pushes to its
\* subscribers here are the chain status events of its sessions.
SpecMain == InitMain /\ [][NextMain]_vars

\* Sessions of the pending and the mined dialect that stay connected and receive
\* transaction objects that need not decode.
NextDecode ==
  \/ Start
  \/ \E s \in Slots : UpstreamAccept(s)
  \/ \E s \in Slots : UpstreamAck(s)
  \/ \E s \in Slots : UpstreamNotifyDecoding(s)
  \/ \E s \in Slots : UpstreamMalformed(s)
  \/ \E i \in 1..MaxInFlight : UpsertCompletes(i)

SpecDecode == InitWith({<<1>>, <<8453>>}) /\ [][NextDecode]_vars

\* ------------------------------------------------------ configuration calls
MaxProviders == 2

ProviderLists == UNION {[1..n -> ProviderConfig] : n \in 0..MaxProviders}

\* The chain ids the manager is asked about; NaN is what parseInt makes of an id
\* without digits.
QueryChains == {Num(1), Num(8453), Num(143), NaN}

Idle ==
  /\ chains = <<1>>
  /\ main = [pc |-> "constructed", loaded |-> <<>>, next |-> 0, chainRows |-> {},
             created |-> TRUE, shutdown |-> "no", exitCode |-> 0, dropped |-> {}]
  /\ norm = NoNorm
  /\ Constructed

\* new ProviderManager(configs): validateConfigs passes or throws.
NewProviderManager ==
  /\ boot.pc = "configs"
  /\ boot' = [boot EXCEPT !.pc = IF validateConfigs(boot.providers) THEN "manager"
                                 ELSE "threw"]
  /\ UNCHANGED <<ui, norm, main, chains, isRunning, sockets, clients, unwatchFns,
                 reconnectTimers, armed, inflight, store, out, settled, lastStatus, hvars>>

\* manager.getEndpoints(chainId) and manager.getPrimaryEndpoint(chainId).
GetEndpoints(chainId) ==
  /\ boot.pc = "manager"
  /\ boot' = [boot EXCEPT !.query = chainId,
                          !.endpoints = getEndpoints(boot.providers, chainId),
                          !.primary = getPrimaryEndpoint(boot.providers, chainId)]
  /\ UNCHANGED <<ui, norm, main, chains, isRunning, sockets, clients, unwatchFns,
                 reconnectTimers, armed, inflight, store, out, settled, lastStatus, hvars>>

\* main: const chains = loadChainsFromEnv(providerManager); the manager exists when
\* a provider is configured.
LoadChains ==
  /\ boot.pc = "manager"
  /\ boot' = [boot EXCEPT !.pc = "loaded",
                          !.loaded = loadChainsFromEnv(boot.env,
                                       [present |-> boot.providers # <<>>,
                                        configs |-> boot.providers])]
  /\ UNCHANGED <<ui, norm, main, chains, isRunning, sockets, clients, unwatchFns,
                 reconnectTimers, armed, inflight, store, out, settled, lastStatus, hvars>>

\* A provider manager over every list of provider configurations.
InitProviders ==
  /\ \E configs \in ProviderLists : boot = [NoBoot EXCEPT !.pc = "configs", !.providers = configs]
  /\ Idle

NextProviders ==
  \/ NewProviderManager
  \/ \E chainId \in QueryChains : GetEndpoints(chainId)

SpecProviders == InitProviders /\ [][NextProviders]_vars

\* The provider configurations loadProvidersFromEnv can return alongside the
\* environments the chains are loaded from.
EnvProviderLists ==
  {<<>>,
   <<[provider |-> "infura", apiKey |-> TRUE, customUrl |-> FALSE]>>,
   <<[provider |-> "infura", apiKey |-> TRUE, customUrl |-> FALSE],
     [provider |-> "quicknode", apiKey |-> TRUE, customUrl |-> FALSE]>>}

InitLoad ==
  /\ \E configs \in EnvProviderLists, env \in Envs :
       boot = [NoBoot EXCEPT !.pc = "configs", !.providers = configs, !.env = env]
  /\ Idle

NextLoad ==
  \/ NewProviderManager
  \/ LoadChains

SpecLoad == InitLoad /\ [][NextLoad]_vars

\* --------------------------------------------------------- normalizer calls
\* rawTxToPendingTransaction(tx, chainId) on an upstream transaction object.
NormalizeRaw ==
  /\ norm.arg \in RawTxs
  /\ norm' = [fn |-> "raw", arg |-> norm.arg, res |-> rawTxToPendingTransaction(norm.arg)]
  /\ UNCHANGED <<ui, boot, main, chains, isRunning, sockets, clients, unwatchFns, reconnectTimers,
                 armed, inflight, store, out, settled, lastStatus, hvars>>

\* viemTxToPendingTransaction(tx, chainId) on a viem transaction.
NormalizeViem ==
  /\ norm.arg \in ViemTxs
  /\ norm' = [fn |-> "viem", arg |-> norm.arg, res |-> viemTxToPendingTransaction(norm.arg)]
  /\ UNCHANGED <<ui, boot, main, chains, isRunning, sockets, clients, unwatchFns, reconnectTimers,
                 armed, inflight, store, out, settled, lastStatus, hvars>>

NextNormalizer ==
  \/ NormalizeRaw
  \/ NormalizeViem

\* A transaction object is at hand and no normalizer has been called on it.
InitNormalizer ==
  /\ chains = <<1>>
  /\ main = [pc |-> "constructed", loaded |-> <<>>, next |-> 0, chainRows |-> {},
             created |-> TRUE, shutdown |-> "no", exitCode |-> 0, dropped |-> {}]
  /\ \E tx \in RawTxs \cup ViemTxs :
       norm = [fn |-> "none", arg |-> tx, res |-> [threw |-> FALSE, tx |-> NoTx]]
  /\ boot = NoBoot
  /\ Constructed

\* The two normalizers over the transaction objects they may be given.
SpecNormalizer == InitNormalizer /\ [][NextNormalizer]_vars

\* ---------------------------------------------------- browser client calls
UiOnly ==
  UNCHANGED <<boot, norm, main, chains, isRunning, sockets, clients, unwatchFns,
              reconnectTimers, armed, inflight, store, out, settled, lastStatus, hvars>>

\* The component (its effect, or a handler) calls connect() of the current render.
HookConnect ==
  /\ (ui.wsRef # 0 /\ ui.socks[ui.wsRef].rs = "OPEN") \/ FreeHookSlots(ui) # {}
  /\ ui' = connect(ui, ui.reconnectAttempts)
  /\ UiOnly

\* The component (the cleanup of its effect) calls disconnect().
HookDisconnect ==
  /\ ui' = disconnect(ui)
  /\ UiOnly

\* The server accepts the connection.
HookOpens(s) ==
  /\ ui.socks[s].rs = "CONNECTING"
  /\ ui' = onopen(ui, s)
  /\ UiOnly

\* The close event of a socket: the connection failed, the server closed it, or
\* close() was called on it.
HookCloses(s) ==
  /\ ui.socks[s].rs # "NONE"
  /\ ui' = onclose(ui, s)
  /\ UiOnly

\* A reconnect timer fires.
HookTimerFires(captured) ==
  /\ captured \in ui.timers
  /\ ui.reconnectAttempts <= maxReconnectAttempts
  /\ FreeHookSlots(ui) # {}
  /\ ui' = reconnectCallback(ui, captured)
  /\ UiOnly

NextUseWebSocket ==
  \/ HookConnect
  \/ HookDisconnect
  \/ \E s \in HookSlots : HookOpens(s)
  \/ \E s \in HookSlots : HookCloses(s)
  \/ \E c \in 0..maxReconnectAttempts : HookTimerFires(c)

SpecUseWebSocket == InitWith({<<1>>}) /\ [][NextUseWebSocket]_vars

\* onTransaction of the socket hook: App passes the transaction to addTransaction.
AddTransaction ==
  /\ Len(ui.txBuffer) < MaxAdded
  /\ \E h \in Hashes : ui' = addTransaction(ui, h)
  /\ UiOnly

Flush ==
  /\ ui' = flush(ui)
  /\ UiOnly

ClearTransactions ==
  /\ ui' = clearTransactions(ui)
  /\ UiOnly

NextUseTransactions ==
  \/ AddTransaction
  \/ Flush
  \/ ClearTransactions

SpecUseTransactions == InitWith({<<1>>}) /\ [][NextUseTransactions]_vars

\* ------------------------------------------------------------------ claims
TxEvents == {out[i] : i \in {j \in DOMAIN out : out[j].type = "transaction"}}

HubEntry(ws) == hubClients[HubIndex(HState, ws)]

Registered(ws) == HubIndex(HState, ws) # 0

\* The subscribers broadcast(tx) has to send to: registered, OPEN, filter matching.
Matches(ws, chainId) ==
  HubEntry(ws).subscribedChains = {} \/ chainId \in HubEntry(ws).subscribedChains

Targets(chainId) ==
  {ws \in Subs : Registered(ws) /\ dsState[ws] = "OPEN" /\ Matches(ws, chainId)}

GotTx(ws, ev) == \E i \in DOMAIN pushed[ws] : pushed[ws][i] = TxMsg(ev)

\* C1: within one chain, a transaction is never broadcast after a transaction of a
\* notification that the session received later (broadcast order = arrival order).
C1_BroadcastInArrivalOrder == \A ev \in TxEvents : ~ev.overtaken

\* C2: an upsert that fails with an error other than a duplicate key does not stop
\* the broadcast: the handler run in which it fails emits the transaction.
C2_BroadcastDespiteStoreError ==
  settled.outcome = "error" =>
    \E ev \in TxEvents : ev.hash = settled.hash /\ ev.chainId = settled.chainId

\* C3: the stored status of a hash never goes from confirmed back to pending.
C3_NoDowngrade ==
  [][\A h \in Hashes : store[h].status = "confirmed" => store'[h].status # "pending"]_vars

NoOpenSocket == \A s \in Slots : sockets[s].rs \notin {"CONNECTING", "OPEN"}

NothingTracked == \A c \in AllChains : clients[c] = NoSocket /\ unwatchFns[c] = NoSocket

NoTimer == \A c \in AllChains : armed[c] = 0 /\ ~reconnectTimers[c]

\* C4: from the return of stop() on (until a later start()), no upstream socket is
\* connecting or open, none is tracked, and no reconnect timer is armed, so none fires.
C4_StoppedIsQuiet == ~isRunning => NoOpenSocket /\ NothingTracked /\ NoTimer

\* stop() was called with chain 1 streaming and chain 8453 waiting in backoff: the
\* streaming socket is closing, the timer is gone.
C4_Witness ==
  /\ ~isRunning
  /\ \E s \in Slots : /\ sockets[s].rs = "CLOSING" /\ sockets[s].sub = "acked"
                      /\ sockets[s].chainId = 1
  /\ lastStatus[8453] = "disconnected"
  /\ \A s \in Slots : sockets[s].chainId # 8453

\* The chain's tracked socket is open and its subscribe request was acknowledged.
Streaming(c) ==
  /\ clients[c] # NoSocket
  /\ sockets[clients[c]].rs = "OPEN"
  /\ sockets[clients[c]].sub = "acked"

\* C5: with stop never requested, once a running watcher has lost a chain's
\* connection (it emitted disconnected), the chain eventually has a new open socket
\* with an acknowledged subscribe request, however many attempts the upstream
\* refuses before.
C5_EventuallyStreamingAgain ==
  \A c \in AllChains : (isRunning /\ lastStatus[c] = "disconnected") ~> Streaming(c)

\* Chain 1 streams on the second socket slot: start() gave it the first, so it has
\* reconnected, after chain 8453 did.
C5_Witness == Streaming(1) /\ clients[1] = 2 /\ lastStatus[1] = "connected"

\* C6: a transaction is pushed only to a subscriber whose filter is empty ("all") or
\* contains the transaction's chain; with A on [1] and B on [8453], a chain-1
\* transaction whose sends succeed is pushed to A and not to B.
C6_PushRespectsFilter ==
  /\ \A ws \in Subs : \A ev \in TxEvents :
       GotTx(ws, ev) => Registered(ws) /\ Matches(ws, ev.chainId)
  /\ \A ev \in TxEvents :
       ( /\ ev.chainId = 1 /\ threw = NoSub
         /\ Targets(1) = {"A"}
         /\ Registered("B") /\ HubEntry("B").subscribedChains = {8453} )
       => GotTx("A", ev) /\ pushed["B"] = <<>>

\* A on [1], B on [8453], both open: the chain-1 transaction went to A only.
C6_Witness ==
  /\ Registered("A") /\ Registered("B")
  /\ HubEntry("A").subscribedChains = {1} /\ HubEntry("B").subscribedChains = {8453}
  /\ dsState["A"] = "OPEN" /\ dsState["B"] = "OPEN"
  /\ \E ev \in TxEvents : ev.chainId = 1 /\ GotTx("A", ev) /\ pushed["B"] = <<>>

\* C7: between two connected events of a chain there is a disconnected event of it.
C7_DisconnectedBetweenConnected ==
  [][\A c \in AllChains :
       (\E i \in DOMAIN out' : out'[i] = StatusEvent("connected", c))
       => lastStatus[c] # "connected"]_vars

Stalled(ws) == dsState[ws] = "OPEN" /\ ~reading[ws] /\ buffered[ws] = MaxBuffered

\* C8: a broadcast whose sends all return sends the transaction to every open
\* subscriber with a matching filter, also when other subscribers have stopped
\* reading and hold a full buffer: the broadcast neither waits for them nor skips
\* the subscribers after them.
C8_StalledSubscriberDoesNotBlock ==
  \A ev \in TxEvents : threw = NoSub =>
    \A ws \in Targets(ev.chainId) : GotTx(ws, ev)

\* A is registered before B and has stopped reading with a full buffer; the
\* transaction was sent to both.
C8_Witness ==
  /\ Registered("A") /\ Registered("B") /\ HubIndex(HState, "A") < HubIndex(HState, "B")
  /\ Stalled("A")
  /\ \E ev \in TxEvents : GotTx("A", ev) /\ GotTx("B", ev)

\* C9: a subscriber whose send failed during a broadcast is no longer in the hub's
\* subscriber set when the broadcast is over.
C9_FailedSendRemoves == threw # NoSub => ~Registered(threw)

\* C10: a send that throws for one subscriber does not keep the transaction from
\* the other open subscribers with a matching filter.
C10_ThrowDoesNotStopOthers ==
  \A ev \in TxEvents : threw # NoSub =>
    \A ws \in Targets(ev.chainId) \ {threw} : GotTx(ws, ev)

EmittedSettled ==
  \E ev \in TxEvents : ev.hash = settled.hash /\ ev.chainId = settled.chainId

\* C12: when two upserts of one hash race, the store ends with one record of the
\* hash and each of the two notifications is broadcast, also the one whose upsert
\* hits the duplicate-key error.
C12_DuplicateStillBroadcast ==
  (settled.raced /\ settled.outcome \in {"ok", "unique"}) =>
    store[settled.hash].n = 1 /\ EmittedSettled

\* A record of a hash is created only by the handler run in which an upsert of that
\* hash settles.
OnlyNormalizedStored ==
  [][\A h \in Hashes : (store[h].n = 0 /\ store'[h].n > 0) => settled'.hash = h]_vars

MinedChain(c) == SubConfig(c) = "alchemy_minedTransactions"

\* C14: on a mined-transactions chain a notification with removed = true starts no
\* upsert and emits nothing, and a notification with removed = false and a
\* transaction starts one upsert with status confirmed; when that upsert settles,
\* the transaction is broadcast with status confirmed.
C14_MinedRemovedSkippedElseConfirmed ==
  /\ \A h \in Hashes :
       /\ handleSubscriptionEvent(8453, SubConfig(8453), [removed |-> TRUE, hash |-> h]) = <<>>
       /\ handleSubscriptionEvent(8453, SubConfig(8453), [removed |-> FALSE, hash |-> h])
            = <<AwaitUpsert(8453, h, "confirmed", <<>>, FALSE, store)>>
  /\ \A i \in DOMAIN inflight :
       MinedChain(inflight[i].chainId) =>
         inflight[i].pc = "upsert" /\ inflight[i].status = "confirmed"
  /\ (settled.outcome # "none" /\ MinedChain(settled.chainId)) =>
       /\ settled.status = "confirmed"
       /\ \E ev \in TxEvents : /\ ev.hash = settled.hash /\ ev.chainId = settled.chainId
                               /\ ev.status = "confirmed"

FetchChain(c) == SubConfig(c) = "newHeads"

\* C15: on a headers-then-fetch chain every notification that carries a block number
\* starts exactly one eth_getBlockByNumber call, and every transaction of the
\* returned block is upserted with status confirmed and, when its upsert settles,
\* broadcast with status confirmed.
C15_HeaderFetchedAndConfirmed ==
  /\ Streaming(143) =>
       \A header \in Results(SubConfig(143)) :
         header.number # "" =>
           handleSubscriptionEvent(143, SubConfig(143), header) = <<AwaitFetch(143)>>
  /\ \A i \in DOMAIN inflight :
       (FetchChain(inflight[i].chainId) /\ inflight[i].pc = "upsert") =>
         inflight[i].status = "confirmed"
  /\ (settled.outcome # "none" /\ FetchChain(settled.chainId)) =>
       /\ settled.status = "confirmed"
       /\ \E ev \in TxEvents : /\ ev.hash = settled.hash /\ ev.chainId = settled.chainId
                               /\ ev.status = "confirmed"

SubscribedMsg(chainList) == Msg("subscribed", 0, "", "", chainList)

\* C18: a subscribe message with a chain list, handled for a registered subscriber,
\* leaves that subscriber's filter equal to the given set (whatever it was before),
\* leaves every other subscriber's entry as it was, and is answered to the sender,
\* and to nobody else, with subscribed listing the given set.
C18_SubscribeReplacesFilter ==
  [][(received'.type = "subscribe" /\ received'.array /\ Registered(received'.ws)) =>
       LET i == HubIndex(HState, received'.ws) IN
       /\ hubClients' = [hubClients EXCEPT ![i].subscribedChains = received'.chains]
       /\ pushed' = [NoPushes EXCEPT ![received'.ws] = <<SubscribedMsg(received'.chains)>>]
    ]_vars

\* A subscribed to [8453] while B's filter is [1]: A's filter is [8453], B's is [1].
C18_Witness ==
  /\ received.type = "subscribe" /\ received.ws = "A" /\ received.chains = {8453}
  /\ Registered("A") /\ HubEntry("A").subscribedChains = {8453}
  /\ Registered("B") /\ HubEntry("B").subscribedChains = {1}
  /\ pushed["A"] = <<SubscribedMsg({8453})>>

\* C19: an unsubscribe message of a registered subscriber leaves its filter empty
\* ("all") whatever it was and is answered with subscribed listing no chain; and a
\* subscriber whose filter is "all" and whose connection is open is sent every
\* transaction that is broadcast, of every chain (unless its own send fails).
C19_UnsubscribeMeansAll ==
  /\ [][(received'.type = "unsubscribe" /\ Registered(received'.ws)) =>
          LET i == HubIndex(HState, received'.ws) IN
          /\ hubClients' = [hubClients EXCEPT ![i].subscribedChains = {}]
          /\ pushed' = [NoPushes EXCEPT ![received'.ws] = <<SubscribedMsg({})>>]
       ]_vars
  /\ [](\A ws \in Subs :
          (Registered(ws) /\ dsState[ws] = "OPEN" /\ threw # ws
             /\ HubEntry(ws).subscribedChains = {})
          => \A ev \in TxEvents : GotTx(ws, ev))

\* C20: the connection confirmation is the first message of every accepted
\* subscriber: the handler run that registers a subscriber sends it connected and
\* nothing before it, and nothing is sent to a socket that was not registered in
\* an earlier handler run (so every transaction or chainStatus push follows it).
C20_ConnectedIsFirst ==
  [][\A ws \in Subs :
       /\ (~Registered(ws) /\ pushed'[ws] # <<>>) => Head(pushed'[ws]) = ConnectedMsg
       /\ (dsState[ws] = "NONE" /\ dsState'[ws] = "OPEN") => pushed'[ws] = <<ConnectedMsg>>
    ]_vars

\* B has just been accepted while A, registered before, holds pushes it has not read
\* yet: B was sent the confirmation and nothing else.
C20_Witness ==
  /\ Registered("A") /\ Registered("B") /\ HubIndex(HState, "A") < HubIndex(HState, "B")
  /\ ~reading["A"] /\ buffered["A"] = MaxBuffered
  /\ pushed = [NoPushes EXCEPT !["B"] = <<ConnectedMsg>>]


\* A configuration as the contract calls it invalid.
Blank(name) == \A i \in DOMAIN name : name[i] = " "

Secure(url) == Len(url) >= 6 /\ \A i \in 1..6 : url[i] = WssPrefix[i]

ConfigInvalid(config) ==
  \/ Blank(config.name)
  \/ ~(config.id.int /\ config.id.n >= 1)
  \/ ~Secure(config.wsUrl)

Misconfigured ==
  \/ main.loaded = <<>>
  \/ \E i \in DOMAIN main.loaded : ConfigInvalid(main.loaded[i])

NoSessionEver ==
  /\ ~main.created
  /\ ~isRunning
  /\ \A s \in Slots : sockets[s] = FreshSocket
  /\ \A c \in AllChains : clients[c] = NoSocket /\ ~reconnectTimers[c]

\* C16: when no chain is configured or a loaded configuration has a blank name, an
\* id that is not a positive integer or a wsUrl that does not start with wss://,
\* the process goes from the loaded configuration straight to exit code 1: no
\* session is ever created or started and no chain row is ever written.
C16_MisconfiguredExitsFirst ==
  (main.pc # "constructed" /\ Misconfigured) =>
    /\ main.pc \in {"loaded", "exited"}
    /\ main.pc = "exited" => main.exitCode = 1
    /\ main.chainRows = {}
    /\ NoSessionEver

\* A valid first chain followed by one whose wsUrl is not secure: exit code 1.
C16_Witness ==
  /\ main.pc = "exited" /\ main.exitCode = 1
  /\ Len(main.loaded) = 2
  /\ ~ConfigInvalid(main.loaded[1])
  /\ main.loaded[2] = [name |-> <<"e", "t", "h">>, id |-> Num(8453),
                        wsUrl |-> <<"w", "s", ":", "/", "/", "h">>]
  /\ main.chainRows = {}


ShutdownRan == main.shutdown = "done"

AllSessionsStopped ==
  /\ ~isRunning
  /\ \A c \in AllChains : ~reconnectTimers[c] /\ clients[c] = NoSocket
  /\ \A s \in Slots : sockets[s].rs \notin {"CONNECTING", "OPEN"}

\* C17: once the shutdown handler has run all its steps, every session is stopped
\* with no reconnect timer pending, no subscriber connection is left open, and no
\* step pushes anything to a subscriber.
C17_ShutdownClosesEverything ==
  /\ [](ShutdownRan => AllSessionsStopped /\ \A ws \in Subs : dsState[ws] = "NONE")
  /\ [][ShutdownRan' => pushed' = NoPushes]_vars

\* Both subscribers were connected when the handler finished.
C17_Witness ==
  /\ ShutdownRan
  /\ main.pc = "exited" /\ main.exitCode = 0
  /\ main.dropped = Subs
  /\ Len(chains) = 2


\* C21: a normalizer that returns a record gives it type 0 or 2: type 2 for the
\* upstream type 0x2 (eip1559), type 0 for every other type and for an absent one.
C21_TypeIsZeroOrTwo ==
  (norm.fn # "none" /\ ~norm.res.threw) =>
    /\ norm.res.tx.type \in {Num(0), Num(2)}
    /\ norm.res.tx.type = Num(2) <=> norm.arg.type \in {Hex(<<"2">>), Str(<<"eip1559">>)}

\* A quantity as the upstream sends it: left out, or 0x and hex digits.
Quantity(v) ==
  \/ ~v.def
  \/ /\ v.s = <<>> /\ v.n >= 0
  \/ /\ Len(v.s) > 2 /\ v.s[1] = "0" /\ v.s[2] = "x"
     /\ \A i \in 3..Len(v.s) : v.s[i] \in {HexDigits[k] : k \in 1..16}

\* The number a present quantity denotes, digit by digit.
RECURSIVE Denotes(_)
Denotes(s) ==
  IF s = <<>> THEN 0
  ELSE 16 * Denotes(SubSeq(s, 1, Len(s) - 1))
       + (CHOOSE k \in 0..15 : HexDigits[k + 1] = s[Len(s)])

Amount(v) == IF v.s = <<>> THEN v.n ELSE Denotes(SubSeq(v.s, 3, Len(v.s)))

RECURSIVE Decimal(_)
Decimal(s) == IF s = <<>> THEN 0 ELSE 10 * Decimal(SubSeq(s, 1, Len(s) - 1))
                                      + (CHOOSE k \in 0..9 : HexDigits[k + 1] = s[Len(s)])

\* C22: for quantities that are left out or well-formed, the record's gasPrice is
\* the decimal rendering of gasPrice if present, else of maxFeePerGas if present,
\* else 0; when only maxFeePerGas is present the two fields of the record agree.
C22_GasPriceFallback ==
  (/\ norm.fn # "none"
   /\ \A f \in {"value", "gasPrice", "maxFeePerGas", "gas"} : Quantity(norm.arg[f])
   /\ norm.arg.gasPrice.def => (norm.arg.gasPrice.s # <<>> \/ norm.fn = "viem")) =>
    /\ ~norm.res.threw
    /\ Decimal(norm.res.tx.gasPrice) =
         IF norm.arg.gasPrice.def THEN Amount(norm.arg.gasPrice)
         ELSE IF norm.arg.maxFeePerGas.def THEN Amount(norm.arg.maxFeePerGas)
         ELSE 0
    /\ (~norm.arg.gasPrice.def /\ norm.arg.maxFeePerGas.def) =>
         norm.res.tx.maxFeePerGas = Str(norm.res.tx.gasPrice)

\* The raw normalizer fell back from an absent gasPrice to maxFeePerGas 0x2.
C22_Witness ==
  /\ norm.fn = "raw" /\ ~norm.res.threw
  /\ ~norm.arg.gasPrice.def /\ norm.arg.maxFeePerGas = Hex(<<"2">>)
  /\ norm.res.tx.gasPrice = <<"2">>
  /\ norm.arg.value = Hex(<<"1", "f">>) /\ norm.res.tx.value = <<"3", "1">>


\* A transaction object the contract calls undecodable: no hash, no from, or a
\* numeric field that is present and is not 0x followed by hex digits.
Undecodable(p) ==
  \/ ~p.hash.def
  \/ ~p.from.def
  \/ \E f \in {"value", "gasPrice", "maxFeePerGas", "gas", "nonce", "type"} :
       p[f].def /\ ~Quantity(p[f])

\* C23: a transaction object without hash, without from or with a numeric field
\* that is not valid hex is never written to the store and never broadcast: no
\* upsert of such an object settles successfully and no handler run emits it; its
\* notification leaves the session's socket as it was.
C23_UndecodableDiscarded ==
  /\ []((settled.payload.decoded /\ Undecodable(settled.payload.raw)) =>
          settled.outcome = "error" /\ TxEvents = {})
  /\ [][norm' # norm => sockets' = sockets]_vars


\* The index whose CHAIN_i_NAME is name.
IndexOfName(name) ==
  IF \E i \in DOMAIN EnvNames : EnvNames[i] = name
  THEN CHOOSE i \in DOMAIN EnvNames : EnvNames[i] = name ELSE 0

\* The first index without a name or without an id.
FirstGap(env) ==
  LET gaps == {i \in DOMAIN env : env[i].name = "" \/ env[i].id = <<>>}
  IN IF gaps = {} THEN Len(env) + 1 ELSE CHOOSE i \in gaps : \A j \in gaps : i <= j

\* C24: the loaded list holds chains of indices below the first index whose name
\* or id is unset, each with the name and the id of its index, in index order.
C24_StopsAtFirstGap ==
  boot.pc = "loaded" =>
    /\ \A k \in DOMAIN boot.loaded :
         LET i == IndexOfName(boot.loaded[k].name)
         IN /\ i \in 1..(FirstGap(boot.env) - 1)
            /\ boot.loaded[k].id = parseInt10(boot.env[i].id)
    /\ \A k, l \in DOMAIN boot.loaded :
         k < l => IndexOfName(boot.loaded[k].name) < IndexOfName(boot.loaded[l].name)

\* CHAIN_1 and CHAIN_3 are complete and CHAIN_2 has no id: only CHAIN_1 is loaded.
C24_Witness ==
  /\ boot.pc = "loaded"
  /\ boot.env[1] = [name |-> "c1", id |-> <<"1">>, wsUrl |-> TRUE]
  /\ boot.env[2].name = "c2" /\ boot.env[2].id = <<>>
  /\ boot.env[3] = [name |-> "c3", id |-> <<"8", "4", "5", "3">>, wsUrl |-> TRUE]
  /\ boot.loaded = <<[id |-> Num(1), name |-> "c1", wsUrl |-> <<"env", 1>>]>>

\* A provider as the contract has it support a chain: the custom provider takes
\* every chain, a registered one the chains of its network table.
Supports(config, chainId) ==
  \/ config.provider = "custom"
  \/ chainId.int /\ chainId.n \in PROVIDER_REGISTRY[config.provider]

ProviderNames(seq) == [i \in DOMAIN seq |-> seq[i].provider]

Supporting(configs, chainId) ==
  LET Test(c) == Supports(c, chainId) IN SelectSeq(configs, Test)

\* C25: the endpoints returned for a chain are those of the configured providers
\* that support the chain, in declared order; the primary endpoint is the first
\* of them, and null when no configured provider supports the chain.
C25_EndpointsInDeclaredOrder ==
  (boot.pc = "manager" /\ boot.query # Num(0)) =>
    /\ ProviderNames(boot.endpoints) = ProviderNames(Supporting(boot.providers, boot.query))
    /\ boot.primary = IF boot.endpoints = <<>> THEN NoEndpoint ELSE Head(boot.endpoints)
    /\ Supporting(boot.providers, boot.query) = <<>> => boot.primary = NoEndpoint


\* C26: a chain never has more than one reconnect timer armed, and has one armed
\* exactly when reconnectTimers holds an entry for it.
C26_OneTimerPerChain ==
  \A c \in AllChains : armed[c] <= 1 /\ (armed[c] = 1 <=> reconnectTimers[c])

\* A timer of the chain is pending while a socket of the chain is still closing:
\* its close event calls scheduleReconnect on a chain that has a timer.
C26_Witness ==
  \E c \in AllChains, s \in Slots :
    /\ isRunning /\ reconnectTimers[c] /\ armed[c] = 1
    /\ sockets[s].chainId = c /\ sockets[s].rs = "CLOSING"


\* C27: when a running session handles an error response to its subscribe request on
\* an open socket, that step emits disconnected for the chain and leaves a reconnect
\* timer armed for it.
C27_SubscribeErrorReconnects ==
  [][\A s \in Slots :
       (/\ isRunning
        /\ sockets[s].rs = "OPEN"
        /\ sockets[s].sub = "requested"
        /\ sockets'[s].sub = "rejected")
       => /\ \E i \in DOMAIN out' :
               out'[i] = StatusEvent("disconnected", sockets[s].chainId)
          /\ reconnectTimers'[sockets[s].chainId]]_vars


\* A step that issues no upsert and no fetch: the suspended handlers stay as they
\* are, or one of them ends.
IssuesNothing ==
  \/ inflight' = inflight
  \/ \E i \in DOMAIN inflight : inflight' = RemoveAt(inflight, i)

\* C28: once stop has run, no step of the session issues a store upsert or an HTTP
\* fetch or emits a transaction; an outstanding operation may only end.
C28_StopWithinOneOperation ==
  [][(~isRunning /\ ~isRunning')
     => /\ IssuesNothing
        /\ \A i \in DOMAIN out' : out'[i].type # "transaction"]_vars


\* C29: a step in which a socket finishes closing while the watcher is stopped arms
\* no timer, leaves the map of timers and every other socket as they were, and emits
\* no connected or disconnected event.
C29_NoReconnectAfterStop ==
  [][\A s \in Slots :
       (~isRunning /\ sockets[s].rs # "NONE" /\ sockets'[s].rs = "NONE")
       => /\ armed' = armed
          /\ reconnectTimers' = reconnectTimers
          /\ \A t \in Slots \ {s} : sockets'[t] = sockets[t]
          /\ \A i \in DOMAIN out' : out'[i].type \notin {"connected", "disconnected"}
          /\ lastStatus' = lastStatus]_vars

\* The watcher is stopped, a chain's last event is connected and every socket is
\* gone: the close of that chain's socket was handled after stop.
C29_Witness ==
  /\ ~isRunning
  /\ \A s \in Slots : sockets[s].rs = "NONE"
  /\ \E c \in AllChains : lastStatus[c] = "connected"
  /\ \A c \in AllChains : ~reconnectTimers[c] /\ armed[c] = 0
  /\ out = <<>>


\* C30: the connected event of a connection precedes every transaction decoded from
\* it.  A socket delivers a notification only after its subscribe request was sent,
\* and a transaction is emitted only by a handler that a notification started, so
\* the order holds when (a) the step that sends a socket's subscribe request has
\* emitted connected for the socket's chain, (b) a step that starts a handler finds an
\* open or closing socket of the handler's chain whose subscribe request was sent,
\* and (c) each transaction emitted belongs to a handler suspended before the step.
C30_ConnectedBeforeTransactions ==
  [][/\ \A s \in Slots :
          (sockets[s].sub = "none" /\ sockets'[s].sub # "none")
          => out' = <<StatusEvent("connected", sockets'[s].chainId)>>
     /\ Len(inflight') > Len(inflight)
        => \E s \in Slots :
             /\ sockets[s].rs \in {"OPEN", "CLOSING"}
             /\ sockets[s].sub # "none"
             /\ sockets[s].chainId = inflight'[Len(inflight')].chainId
     /\ \A i \in DOMAIN out' :
          out'[i].type = "transaction"
          => \E j \in DOMAIN inflight :
               /\ inflight[j].chainId = out'[i].chainId
               /\ inflight[j].hash = out'[i].hash]_vars

\* A transaction of a chain is emitted after the chain's socket announced itself.
C30_Witness ==
  \E i \in DOMAIN out :
    /\ out[i].type = "transaction"
    /\ lastStatus[out[i].chainId] = "connected"
    /\ \E s \in Slots : sockets[s].chainId = out[i].chainId /\ sockets[s].sub = "acked"


\* C31: a step that handles a frame whose parsing or decoding throws leaves every
\* socket, every timer and the suspended handlers as they were and emits nothing,
\* so a socket that was delivering notifications goes on delivering them.
C31_MalformedFrameDiscarded ==
  [][(norm' # norm /\ norm'.res.threw)
     => /\ sockets' = sockets
        /\ reconnectTimers' = reconnectTimers
        /\ armed' = armed
        /\ lastStatus' = lastStatus
        /\ inflight' = inflight
        /\ store' = store
        /\ out' = <<>>]_vars

\* A frame was discarded on a chain whose socket is still open and subscribed, with
\* no reconnect pending.
C31_Witness ==
  /\ norm.res.threw
  /\ \E s \in Slots :
       /\ sockets[s].rs = "OPEN" /\ sockets[s].sub = "acked"
       /\ lastStatus[sockets[s].chainId] = "connected"
       /\ ~reconnectTimers[sockets[s].chainId]
       /\ clients[sockets[s].chainId] = s


\* The chain ids the registry lists.
Listed == {1, 11155111, 137, 8453, 42161, 10, 143}

\* C32: every socket of a chain the registry lists subscribes with the dialect the
\* registry gives the chain, and every socket of a chain it does not list subscribes
\* with newHeads, whether the socket was opened by start() or by a reconnect.
C32_DialectByChainId ==
  \A s \in Slots :
    sockets[s].rs # "NONE" =>
      sockets[s].method = IF sockets[s].chainId \in Listed
                          THEN SUBSCRIPTION_CONFIG[sockets[s].chainId]
                          ELSE "newHeads"

\* The socket of an unlisted chain opened by a reconnect: the chain's last event is
\* disconnected and its current socket is connecting with newHeads.
C32_Witness ==
  \E s \in Slots :
    /\ sockets[s].chainId \notin Listed
    /\ sockets[s].rs = "CONNECTING"
    /\ sockets[s].method = "newHeads"
    /\ clients[sockets[s].chainId] = s
    /\ lastStatus[sockets[s].chainId] = "disconnected"
    /\ isRunning


\* C33: a transaction is emitted only in the handler run in which its own upsert
\* resolved, with its record in the store; a run in which the upsert was rejected
\* emits nothing.
C33_EmittedOnlyAfterStored ==
  /\ \A ev \in TxEvents :
       /\ settled.outcome = "ok"
       /\ settled.hash = ev.hash /\ settled.chainId = ev.chainId
       /\ store[ev.hash].n >= 1
  /\ settled.outcome \in {"error", "unique"} => TxEvents = {}

\* An upsert was rejected by the store and its run emitted nothing, while the other
\* hash is stored.
C33_Witness ==
  /\ settled.outcome = "error"
  /\ out = <<>>
  /\ store[settled.hash].n = 0
  /\ \E h \in Hashes : store[h].n = 1


\* C34: a step in which a socket finishes closing while the client map of its chain
\* names another socket leaves that other socket and both map entries of the chain
\* as they were.
C34_StaleCloseSparesCurrent ==
  [][\A s \in Slots :
       LET c == sockets[s].chainId
           cur == IF c \in AllChains THEN clients[c] ELSE NoSocket
       IN (/\ sockets[s].rs # "NONE" /\ sockets'[s].rs = "NONE"
           /\ cur # NoSocket /\ cur # s)
          => /\ sockets'[cur] = sockets[cur]
             /\ clients'[c] = cur
             /\ unwatchFns'[c] = unwatchFns[c]]_vars


\* The sockets of a chain that are connecting or open.
Live(c) == {s \in Slots : sockets[s].chainId = c /\ sockets[s].rs \in {"CONNECTING", "OPEN"}}

\* The sockets of a chain whose ping interval is set.
Pinging(c) == {s \in Slots : sockets[s].chainId = c /\ sockets[s].ping}

\* C35: each chain has at most one connecting or open socket, which is the one the
\* client map records for the chain, and at most one ping interval, none while the
\* watcher is stopped.
C35_OneLiveSocketPerChain ==
  \A c \in AllChains :
    /\ Cardinality(Live(c)) <= 1
    /\ \A s \in Live(c) : clients[c] = s
    /\ Cardinality(Pinging(c)) <= 1
    /\ ~isRunning => Pinging(c) = {}

\* After a restart the chain has a live socket with its ping interval while the
\* socket of the earlier run is still closing.
C35_Witness ==
  \E c \in AllChains, s \in Slots, t \in Slots :
    /\ s \in Live(c) /\ s \in Pinging(c)
    /\ t # s /\ sockets[t].chainId = c /\ sockets[t].rs = "CLOSING"


StatusEvents == {out[i] : i \in {j \in DOMAIN out : out[j].type \in {"connected", "disconnected"}}}

GotStatus(ws, ev) ==
  \E i \in DOMAIN pushed[ws] : pushed[ws][i] = StatusMsg(ev.chainId, ev.type)

\* C36: a connected or disconnected event of a chain is pushed to every registered
\* subscriber whose connection is open, whatever its filter (unless its own send
\* fails).
C36_StatusIgnoresFilter ==
  \A ev \in StatusEvents : \A ws \in Subs :
    (Registered(ws) /\ dsState[ws] = "OPEN" /\ threw # ws) => GotStatus(ws, ev)

\* C36 where no send throws.
StatusIgnoresFilterNoThrow ==
  \A ev \in StatusEvents : \A ws \in Subs :
    (Registered(ws) /\ dsState[ws] = "OPEN" /\ threw = NoSub) => GotStatus(ws, ev)


\* C37: a subscribe message with an empty list from a registered subscriber leaves
\* its filter empty, as the filter of a subscriber that was just accepted, and is
\* answered with subscribed listing no chain; and a subscriber whose connection is
\* open and whose last message was that subscribe is sent every transaction that is
\* broadcast, of every chain (unless its own send fails).
C37_EmptySubscribeMeansAll ==
  /\ [][(/\ received'.type = "subscribe" /\ received'.array /\ received'.chains = {}
         /\ Registered(received'.ws))
        => LET i == HubIndex(HState, received'.ws) IN
           /\ hubClients' = [hubClients EXCEPT ![i].subscribedChains = {}]
           /\ pushed' = [NoPushes EXCEPT ![received'.ws] = <<SubscribedMsg({})>>]
       ]_vars
  /\ [][\A ws \in Subs :
          (/\ received.type = "subscribe" /\ received.array /\ received.chains = {}
           /\ received.ws = ws /\ Registered(ws) /\ dsState'[ws] = "OPEN"
           /\ threw' # ws)
          => \A i \in DOMAIN out' :
               out'[i].type = "transaction"
               => \E k \in DOMAIN pushed'[ws] : pushed'[ws][k] = TxMsg(out'[i])]_vars


\* C38: a call of start() on a running watcher leaves every socket, both maps, the
\* timers and the last status of every chain as they were and emits nothing.
C38_StartWhileRunningIsNoOp ==
  [][StartWhileRunning
     => /\ isRunning'
        /\ sockets' = sockets
        /\ clients' = clients
        /\ unwatchFns' = unwatchFns
        /\ reconnectTimers' = reconnectTimers
        /\ armed' = armed
        /\ lastStatus' = lastStatus
        /\ out' = <<>>
        /\ pushed' = NoPushes]_vars

\* The chain's only socket is open with its subscribe request unanswered, no timer
\* is armed and the last step emitted nothing: start() was called after the socket
\* opened.
C38_Witness ==
  /\ isRunning
  /\ out = <<>>
  /\ \E s \in Slots :
       /\ sockets[s].rs = "OPEN" /\ sockets[s].sub = "requested"
       /\ \A t \in Slots \ {s} : sockets[t].rs = "NONE"
  /\ \A c \in AllChains : armed[c] = 0


\* C39: the close event of a socket that disconnect() closed, handled while the hook
\* holds no socket and no timer is pending, arms no reconnect timer and creates no
\* WebSocket.
C39_NoReconnectAfterDisconnect ==
  [][\A s \in HookSlots :
       (/\ ui.socks[s].rs = "CLOSING" /\ ui'.socks[s].rs = "NONE"
        /\ ui.wsRef = 0 /\ ui.timers = {}
        /\ \A t \in HookSlots \ {s} : ui.socks[t].rs = "NONE")
       => /\ ui'.timers = {}
          /\ \A t \in HookSlots : ui'.socks[t].rs = "NONE"]_vars

Distinct(seq) == \A i, j \in DOMAIN seq : i # j => seq[i] # seq[j]

\* C40: whenever the buffer is empty (it is after every flush) the live list holds
\* no hash twice and at most MAX_LIVE_TRANSACTIONS entries.
C40_LiveListDistinctAndBounded ==
  ui.txBuffer = <<>> =>
    Distinct(ui.transactions) /\ Len(ui.transactions) <= MAX_LIVE_TRANSACTIONS

====
